---- MODULE Spec2Model ----
(***************************************************************************)
(* mail2feed: the background processing core.                              *)
(*                                                                         *)
(*   scheduler  backend/src/background/scheduler.rs (EmailScheduler)       *)
(*   config     backend/src/background/config.rs    (BackgroundConfig)     *)
(*   processor  backend/src/imap/processor.rs       (EmailProcessor)       *)
(*   fetch      backend/src/imap/client.rs          (parse_email, fetch)   *)
(*   compactor  backend/src/background/cleanup.rs   (FeedCleanupService)   *)
(*   store      backend/src/db/operations.rs, models.rs                    *)
(*                                                                         *)
(* Times are whole seconds.  `now' is the wall clock (Utc::now).  An       *)
(* Instant is opaque in the program, only its distance to another Instant  *)
(* is observable, so every stored Instant is kept as its distance from the *)
(* current instant (InstantNow): positive in the future, negative in the   *)
(* past.  Header texts are sequences of one-character strings;             *)
(* identifiers are plain strings.                                          *)
(***************************************************************************)
EXTENDS Integers, Sequences, FiniteSets, TLC

\* Option<String> of a message or error text: None or the text itself
None == "None"

\* Option<T> of a table column: the empty sequence or a one-element sequence
Nothing == <<>>

Some(x) == <<x>>

IsSome(o) == o # <<>>

Unwrap(o) == o[1]

(***************************************************************************)
(* Bounds of the model (not program constants).                            *)
(***************************************************************************)
\* the clock advances in steps of ClockStep seconds up to MaxClock
ClockStep == 150
MaxClock == 300
\* a run may fail only while the account has fewer than max_attempts +
\* MaxExcess consecutive failures
MaxExcess == 1
\* number of rows the feed_items table may hold in the processing
\* specifications
MaxStore == 2

(***************************************************************************)
(* Program constants.                                                      *)
(***************************************************************************)
\* processor.rs:82  fetch_emails_from_folder(&rule.folder, Some(100))
FetchLimit == 100
\* chrono::Duration::days
DaySeconds == 86400

VARIABLES
    config,                 \* BackgroundConfig of the scheduler
    imap_accounts,          \* table imap_accounts: account ids, table order
    email_rules,            \* table email_rules: sequence of EmailRule
    feeds,                  \* table feeds: sequence of Feed
    feed_items,             \* table feed_items: set of FeedItem rows
    mailbox,                \* the IMAP server: folder -> set of messages
    now,                    \* the wall clock (Utc::now), seconds
    is_running,             \* EmailScheduler.is_running
    account_states,         \* EmailScheduler.account_states
    processing_semaphore,   \* available permits of processing_semaphore
    next_tick,              \* deadline of the processing ticker
    tick,                   \* position of process_due_accounts
    tasks,                  \* spawned workers and the manual trigger
    last_cleanup,           \* CleanupResult of the latest compactor run
    stream,                 \* a CrlfStreamWrapper and its inner stream
    session,                \* an IMAP session and the bytes on its socket
    call,                   \* a call of a function of the processor
    is_paused,              \* BackgroundService.is_paused
    control_handler,        \* position of the control message handler
    cancellation_token,     \* EmailScheduler.cancellation_token: cancelled
    scheduler_loop,         \* the task of run_scheduler_loop is alive
    next_cleanup,           \* deadline of the retention ticker
    stop_call               \* position of EmailScheduler::stop

vars == << config, imap_accounts, email_rules, feeds, feed_items, mailbox,
           now, is_running, account_states, processing_semaphore,
           next_tick, tick, tasks, last_cleanup, stream, session, call,
           is_paused, control_handler, cancellation_token, scheduler_loop,
           next_cleanup, stop_call >>

dbVars == << imap_accounts, email_rules, feeds >>

\* the variables of the functions that are exercised on their own
pureVars == << stream, session, call >>

\* the variables of the service around the scheduler
serviceVars == << is_paused, control_handler, cancellation_token,
                 scheduler_loop, next_cleanup, stop_call >>

(***************************************************************************)
(* config.rs                                                               *)
(***************************************************************************)
\* impl Default for BackgroundConfig / RetryConfig / ProcessingLimits
DefaultConfig ==
    [ global_interval_minutes      |-> 15,
      per_account_interval_minutes |-> 30,
      max_concurrent_accounts      |-> 3,
      retry  |-> [ max_attempts          |-> 3,
                   initial_delay_seconds |-> 30,
                   max_delay_seconds     |-> 300,
                   backoff_multiplier    |-> 2 ],
      limits |-> [ max_emails_per_run          |-> 100,
                   max_processing_time_seconds |-> 300 ] ]

\* BackgroundConfig::from_env: the variables it reads override the
\* defaults; max_delay_seconds and backoff_multiplier are never read
from_env(gi, pi, mc, ma, idl, me, pt) ==
    [ DefaultConfig EXCEPT
        !.global_interval_minutes = gi,
        !.per_account_interval_minutes = pi,
        !.max_concurrent_accounts = mc,
        !.retry.max_attempts = ma,
        !.retry.initial_delay_seconds = idl,
        !.limits.max_emails_per_run = me,
        !.limits.max_processing_time_seconds = pt ]

global_interval(c) == c.global_interval_minutes * 60

per_account_interval(c) == c.per_account_interval_minutes * 60

max_processing_time(c) == c.limits.max_processing_time_seconds

RECURSIVE powi(_, _)
powi(b, e) == IF e = 0 THEN 1 ELSE b * powi(b, e - 1)

Min(a, b) == IF a <= b THEN a ELSE b

Max(a, b) == IF a >= b THEN a ELSE b

\* mutant: the cap by max_delay_seconds is missing
calculate_retry_delay_nocap(c, attempt) ==
    c.retry.initial_delay_seconds * powi(c.retry.backoff_multiplier, attempt)

\* BackgroundConfig::calculate_retry_delay
calculate_retry_delay(c, attempt) ==
    Min(c.retry.initial_delay_seconds * powi(c.retry.backoff_multiplier, attempt),
        c.retry.max_delay_seconds)

\* mutant: a configuration without a permit is accepted
validate_no_concurrency(c) ==
    /\ c.global_interval_minutes # 0
    /\ c.per_account_interval_minutes # 0
    /\ c.retry.max_attempts # 0
    /\ c.retry.backoff_multiplier > 1
    /\ c.limits.max_emails_per_run # 0
    /\ c.limits.max_processing_time_seconds # 0

\* BackgroundConfig::validate
validate(c) ==
    /\ c.global_interval_minutes # 0
    /\ c.per_account_interval_minutes # 0
    /\ c.max_concurrent_accounts # 0
    /\ c.retry.max_attempts # 0
    /\ c.retry.backoff_multiplier > 1
    /\ c.limits.max_emails_per_run # 0
    /\ c.limits.max_processing_time_seconds # 0

(***************************************************************************)
(* Texts                                                                   *)
(***************************************************************************)
\* str::to_lowercase on the letters the model uses
to_lowercase_char(c) ==
    CASE c = "A" -> "a"
      [] c = "B" -> "b"
      [] OTHER -> c

to_lowercase(s) == [ i \in 1..Len(s) |-> to_lowercase_char(s[i]) ]

\* str::contains
contains(s, pat) ==
    \E i \in 0..(Len(s) - Len(pat)) : SubSeq(s, i + 1, i + Len(pat)) = pat

(***************************************************************************)
(* client.rs: messages on the server and their parsed form                 *)
(***************************************************************************)
\* The messages a folder may hold.  A missing header is the empty text;
\* date_ok says whether the Date header parses as RFC 2822; seen is the
\* flag \Seen.
RawMessages ==
    { [ uid |-> 1, subject |-> <<"A">>, from |-> <<"b">>, to |-> <<"c">>,
        date_ok |-> TRUE,  date |-> 100, message_id |-> <<"m", "1">>,
        seen |-> FALSE ],
      [ uid |-> 2, subject |-> <<"A">>, from |-> <<"b">>, to |-> <<"c">>,
        date_ok |-> FALSE, date |-> 0,   message_id |-> <<>>,
        seen |-> FALSE ],
      [ uid |-> 3, subject |-> <<>>,    from |-> <<>>,    to |-> <<>>,
        date_ok |-> FALSE, date |-> 0,   message_id |-> <<>>,
        seen |-> FALSE ],
      [ uid |-> 4, subject |-> <<"B">>, from |-> <<"b">>, to |-> <<"c">>,
        date_ok |-> TRUE,  date |-> 100, message_id |-> <<"m", "1">>,
        seen |-> FALSE ],
      [ uid |-> 5, subject |-> <<"a", "B">>, from |-> <<"b">>, to |-> <<"c">>,
        date_ok |-> TRUE,  date |-> 100, message_id |-> <<>>,
        seen |-> FALSE ] }

\* parse_email: date starts as Utc::now() and is replaced only by a Date
\* header that parses; a message without subject, sender and Message-ID
\* gets the placeholders
parse_email(raw, utc_now) ==
    LET placeholder == raw.subject = <<>> /\ raw.from = <<>> /\ raw.message_id = <<>>
    IN  [ uid        |-> raw.uid,
          message_id |-> IF placeholder THEN <<"<uid-", ToString(raw.uid), ">">>
                         ELSE raw.message_id,
          subject    |-> IF placeholder THEN <<"[Email UID: ", ToString(raw.uid), "]">>
                         ELSE raw.subject,
          from       |-> IF placeholder THEN <<"[Unknown sender]">> ELSE raw.from,
          to         |-> raw.to,
          date       |-> IF raw.date_ok THEN raw.date ELSE utc_now ]

\* the elements of a finite set of records with distinct uid, ascending uid
RECURSIVE by_uid(_)
by_uid(S) ==
    IF S = {} THEN <<>>
    ELSE LET m == CHOOSE x \in S : \A y \in S : x.uid <= y.uid
         IN  <<m>> \o by_uid(S \ {m})

\* Vec::sort_by(|a, b| b.date.cmp(&a.date)): stable, newest first
RECURSIVE sort_by_date_desc(_)
sort_by_date_desc(s) ==
    IF Len(s) <= 1 THEN s
    ELSE LET rest == sort_by_date_desc(Tail(s))
             h    == Head(s)
             \* h goes before the first element that is strictly older
             k    == Cardinality({ i \in 1..Len(rest) : rest[i].date >= h.date })
         IN  SubSeq(rest, 1, k) \o <<h>> \o SubSeq(rest, k + 1, Len(rest))

\* Result<T>: Ok(v) and Err(e)
Ok(v) == [ err |-> None, value |-> v ]

Err(e) == [ err |-> e, value |-> << >> ]

\* the commands the IMAP server answers with OK: UID SEARCH ALL,
\* UID FETCH BODY.PEEK[HEADER], UID FETCH ENVELOPE, UID FETCH UID and
\* FETCH n:m UID
Server(uid_search, header, envelope, uid_only, sequence) ==
    [ uid_search |-> uid_search, header |-> header, envelope |-> envelope,
      uid_only |-> uid_only, sequence |-> sequence ]

CompliantServer == Server(TRUE, TRUE, TRUE, TRUE, TRUE)

\* the answer to a fetch of the data item UID alone: no header, no envelope
uid_item(raw) ==
    [ raw EXCEPT !.subject = << >>, !.from = << >>, !.to = << >>,
                 !.message_id = << >>, !.date_ok = FALSE ]

\* mutant: the limit is not applied
fetch_count_no_limit(limit, total_messages) == total_messages

\* fetch_from_selected_folder, "limit.unwrap_or(total_messages)
\* .min(total_messages)"
fetch_count(limit, total_messages) ==
    Min(IF IsSome(limit) THEN Unwrap(limit) ELSE total_messages,
        total_messages)

\* fetch_from_selected_folder after UID SEARCH ALL: "sorted_uids
\* .into_iter().rev().take(fetch_count)", the fetch_count highest UIDs;
\* they are kept here in the order of the folder, in which the server
\* answers
uids_to_fetch(folder_msgs, limit) ==
    LET total_messages == Cardinality(folder_msgs)
        sorted_uids    == by_uid(folder_msgs)
    IN  SubSeq(sorted_uids,
               total_messages - fetch_count(limit, total_messages) + 1,
               total_messages)

\* fetch_from_selected_folder when the search has failed:
\* format!("{}:{}", start, total_messages)
sequence_set(limit, total_messages) ==
    << IF total_messages > fetch_count(limit, total_messages)
       THEN total_messages - fetch_count(limit, total_messages) + 1
       ELSE 1,
       total_messages >>

\* session.fetch(&sequence_set, "UID"): the messages of the folder whose
\* sequence numbers the set n:m names (n:m and m:n name the same numbers)
in_sequence_set(folder_msgs, set) ==
    LET sorted == by_uid(folder_msgs)
    IN  SubSeq(sorted, Min(set[1], set[2]),
               Min(Max(set[1], set[2]), Len(sorted)))

\* fetch_from_selected_folder, the strategies in the order of the code:
\* headers (the bodies of a second fetch are not part of the model's
\* messages), then the envelope, then the UID alone; the sequence-based
\* fetch of the UID when the search has failed; a strategy that fails is
\* logged and leaves emails empty
fetched_emails(srv, folder_msgs, limit, utc_now) ==
    LET asked   == uids_to_fetch(folder_msgs, limit)
        by_seq  == in_sequence_set(folder_msgs,
                     sequence_set(limit, Cardinality(folder_msgs)))
    IN  IF srv.uid_search
        THEN IF srv.header \/ srv.envelope
             THEN [ i \in 1..Len(asked) |-> parse_email(asked[i], utc_now) ]
             ELSE IF srv.uid_only
             THEN [ i \in 1..Len(asked) |->
                      parse_email(uid_item(asked[i]), utc_now) ]
             ELSE << >>
        ELSE IF srv.sequence
             THEN [ i \in 1..Len(by_seq) |->
                      parse_email(uid_item(by_seq[i]), utc_now) ]
             ELSE << >>

\* fetch_from_selected_folder: EXAMINE, nothing for an empty folder, else
\* the emails of the first strategy that answers, sorted by date; always
\* Ok once the folder is examined
fetch_from_selected_folder(srv, mbox, folder, limit, utc_now) ==
    IF folder \notin DOMAIN mbox THEN Err("ExamineFailed")
    ELSE IF mbox[folder] = {} THEN Ok(<< >>)
    ELSE Ok(sort_by_date_desc(fetched_emails(srv, mbox[folder], limit, utc_now)))

\* the failures of connect_tls_sync / connect_plain_sync and of the folder
\* selection that fetch_emails_from_folder returns as Err
FetchErrors == { "ConnectionFailed", "TlsHandshakeFailed", "AuthenticationFailed" }

(***************************************************************************)
(* processor.rs                                                            *)
(***************************************************************************)
\* mutant: the texts are compared as they are
matches_rule_cased(email, rule) ==
    /\ IsSome(rule.from_address) =>
         contains(email.from, Unwrap(rule.from_address))
    /\ IsSome(rule.to_address) =>
         contains(email.to, Unwrap(rule.to_address))
    /\ IsSome(rule.subject_contains) =>
         contains(email.subject, Unwrap(rule.subject_contains))

\* EmailProcessor::matches_rule
matches_rule(email, rule) ==
    /\ IsSome(rule.from_address) =>
         contains(to_lowercase(email.from), to_lowercase(Unwrap(rule.from_address)))
    /\ IsSome(rule.to_address) =>
         contains(to_lowercase(email.to), to_lowercase(Unwrap(rule.to_address)))
    /\ IsSome(rule.subject_contains) =>
         contains(to_lowercase(email.subject), to_lowercase(Unwrap(rule.subject_contains)))

\* EmailProcessor::email_exists_in_feed: by Message-ID when it is not
\* empty, then by title, sender and publication date
email_exists_in_feed(items, email, feed_id_val) ==
    \/ /\ email.message_id # <<>>
       /\ \E it \in items : /\ it.feed_id = feed_id_val
                            /\ it.email_message_id = email.message_id
    \/ \E it \in items : /\ it.feed_id = feed_id_val
                         /\ it.title = email.subject
                         /\ it.email_from = email.from
                         /\ it.pub_date = email.date

\* Uuid::new_v4: an id no row of the table carries
new_id(items) ==
    CHOOSE k \in 1..(Cardinality(items) + 1) : \A it \in items : it.id # k

\* NewFeedItem::new as called by EmailProcessor::create_feed_item
NewFeedItem(items, email, feed_id_val, utc_now) ==
    [ id               |-> new_id(items),
      feed_id          |-> feed_id_val,
      title            |-> email.subject,
      pub_date         |-> email.date,
      email_message_id |-> email.message_id,
      email_from       |-> email.from,
      created_at       |-> utc_now ]

\* ProcessingResult::default
EmptyResult ==
    [ total_emails_processed |-> 0, new_feed_items_created |-> 0, errors |-> <<>> ]

\* RuleProcessingResult { emails_processed: 0, items_created: 0 }
EmptyRuleResult == [ emails_processed |-> 0, items_created |-> 0 ]

\* operations::get_email_rules_by_account
get_email_rules_by_account(account_id) ==
    SelectSeq(email_rules, LAMBDA r : r.imap_account_id = account_id)

\* operations::get_feeds_by_rule
get_feeds_by_rule(rule_id) ==
    SelectSeq(feeds, LAMBDA f : f.email_rule_id = rule_id)

(***************************************************************************)
(* scheduler.rs: state                                                     *)
(***************************************************************************)
\* Instant::now()
InstantNow == 0

\* AccountState as inserted by initialize_account_states
NewAccountState(t) ==
    [ is_processing    |-> FALSE,
      next_allowed_run |-> t,
      retry_count      |-> 0,
      stats |-> [ last_run |-> Nothing, last_success |-> Nothing,
                  last_error |-> None, consecutive_failures |-> 0 ] ]

\* A task is a worker spawned by process_due_accounts (kind "scheduled") or
\* the call of process_account_now made by the control handler (kind
\* "manual").  pc is its position:
\*   "spawned"/"acquire"  waiting for a permit
\*   "rules" "rule" "email" "insert" "post"
\*                        inside EmailProcessor::process_account
\*   "update"             processor returned, account state not yet written
NewTask(kind, account_id, pc) ==
    [ kind        |-> kind,
      account     |-> account_id,
      pc          |-> pc,
      started     |-> 0,
      outcome     |-> None,
      error       |-> None,
      result      |-> EmptyResult,
      rules_left  |-> <<>>,
      feed_id     |-> None,
      emails_left |-> <<>>,
      rule_result |-> EmptyRuleResult ]

ProcessorPcs == { "rules", "rule", "email", "insert", "post" }

\* the tasks that hold a permit
Holding(t) == t.pc \in ProcessorPcs \cup { "update" }

\* the Processor invocations in flight
InFlight == { t \in tasks : t.pc \in ProcessorPcs }

IdleTick == [ pc |-> "idle", left |-> <<>>, now |-> InstantNow ]

HasState(a) == a \in DOMAIN account_states

\* bound: the failure of a run is explored up to MaxExcess failures past
\* max_attempts
FailureAllowed(a) ==
    HasState(a) => account_states[a].stats.consecutive_failures
                     < config.retry.max_attempts + MaxExcess

\* the processor returned: keep its outcome until the state is written
Returned(t, outcome, error, result) ==
    [ NewTask(t.kind, t.account, "update") EXCEPT
        !.outcome = outcome, !.error = error, !.result = result ]

Range(f) == { f[i] : i \in DOMAIN f }

Replace(t, u) == (tasks \ {t}) \cup {u}

(***************************************************************************)
(* processor.rs: EmailProcessor::process_account, one step per store or    *)
(* server operation                                                        *)
(***************************************************************************)
\* process_account, loop "for rule in rules": the rule at the head is done
NextRule(t, result) ==
    IF Len(t.rules_left) = 1
    THEN Returned(t, "ok", None, result)
    ELSE [ t EXCEPT !.pc = "rule", !.rules_left = Tail(@), !.result = result,
                    !.feed_id = None, !.emails_left = <<>>,
                    !.rule_result = EmptyRuleResult ]

\* mutant: the first rule that fails ends the loop over the rules
RuleFailed_ends_loop(t, e) ==
    Returned(t, "ok", None,
             [ t.result EXCEPT
                 !.errors = Append(@, << Head(t.rules_left).id, e >>) ])

\* process_rule returned Err(e): process_account pushes it to result.errors
RuleFailed(t, e) ==
    NextRule(t, [ t.result EXCEPT
                    !.errors = Append(@, << Head(t.rules_left).id, e >>) ])

\* process_rule returned Ok(rule_result): process_account adds the counts
RuleDone(t, rule_result) ==
    NextRule(t, [ t.result EXCEPT
                    !.total_emails_processed = @ + rule_result.emails_processed,
                    !.new_feed_items_created = @ + rule_result.items_created ])

\* process_rule, loop "for (index, email) in emails": the email at the
\* head is done
NextEmail(t, rule_result) ==
    IF Len(t.emails_left) = 1
    THEN RuleDone(t, rule_result)
    ELSE [ t EXCEPT !.pc = "email", !.emails_left = Tail(@),
                    !.rule_result = rule_result ]

\* process_account up to the rule loop: the rules of the account are
\* loaded; without rules the run is over
process_account_begin(t) ==
    /\ t \in tasks /\ t.pc = "rules"
    /\ \E store_ok \in BOOLEAN :
         /\ ~store_ok => FailureAllowed(t.account)
         /\ LET rules == get_email_rules_by_account(t.account)
            IN  tasks' = Replace(t,
                  IF ~store_ok
                  THEN Returned(t, "err", "Failed to get database connection",
                                EmptyResult)
                  ELSE IF rules = <<>>
                  THEN Returned(t, "ok", None, EmptyResult)
                  ELSE [ t EXCEPT !.pc = "rule", !.rules_left = rules ])
    /\ UNCHANGED << config, dbVars, feed_items, mailbox, now, is_running,
                    account_states, processing_semaphore, next_tick, tick,
                    last_cleanup >>
    /\ UNCHANGED << pureVars, serviceVars >>

\* process_rule up to the email loop: feed lookup and fetch
process_rule_begin(t) ==
    /\ t \in tasks /\ t.pc = "rule"
    /\ LET rule == Head(t.rules_left)
           fs   == get_feeds_by_rule(rule.id)
       IN  \E fetched \in { "ok" } \cup FetchErrors :
             tasks' = Replace(t,
               IF ~rule.is_active THEN NextRule(t, t.result)
               ELSE IF fs = <<>> THEN RuleDone(t, EmptyRuleResult)
               ELSE IF fetched # "ok" THEN RuleFailed(t, fetched)
               ELSE LET emails == fetch_from_selected_folder(
                                     CompliantServer, mailbox, rule.folder,
                                     Some(FetchLimit), now).value
                    IN  IF emails = <<>> THEN RuleDone(t, EmptyRuleResult)
                        ELSE [ t EXCEPT !.pc = "email", !.feed_id = fs[1].id,
                                        !.emails_left = emails,
                                        !.rule_result = EmptyRuleResult ])
    /\ UNCHANGED << config, dbVars, feed_items, mailbox, now, is_running,
                    account_states, processing_semaphore, next_tick, tick,
                    last_cleanup >>
    /\ UNCHANGED << pureVars, serviceVars >>

\* process_rule, one email: rule match and duplicate test
process_email(t) ==
    /\ t \in tasks /\ t.pc = "email"
    /\ LET email == Head(t.emails_left)
           rule  == Head(t.rules_left)
           rr    == [ t.rule_result EXCEPT !.emails_processed = @ + 1 ]
       IN  \E query_ok \in BOOLEAN :
             tasks' = Replace(t,
               IF ~matches_rule(email, rule) THEN NextEmail(t, t.rule_result)
               ELSE IF ~query_ok THEN RuleFailed(t, "StoreUnavailable")
               ELSE IF email_exists_in_feed(feed_items, email, t.feed_id)
               THEN NextEmail(t, rr)
               ELSE [ t EXCEPT !.pc = "insert", !.rule_result = rr ])
    /\ UNCHANGED << config, dbVars, feed_items, mailbox, now, is_running,
                    account_states, processing_semaphore, next_tick, tick,
                    last_cleanup >>
    /\ UNCHANGED << pureVars, serviceVars >>

\* models.rs, EmailAction::from_str
from_str(s) ==
    CASE s = "delete" -> "Delete"
      [] s = "move_to_folder" -> "MoveToFolder"
      [] s = "do_nothing" -> "DoNothing"
      [] OTHER -> "MarkAsRead"

\* post_process_email calls the server for this rule
calls_server(rule) ==
    LET action == from_str(rule.post_process_action)
    IN  /\ action # "DoNothing"
        /\ action = "MoveToFolder" => IsSome(rule.move_to_folder)

\* mutant: the post action follows a failed insertion too
create_feed_item_posts_always(t) ==
    /\ t \in tasks /\ t.pc = "insert"
    /\ Cardinality(feed_items) < MaxStore
    /\ \E insert_ok \in BOOLEAN :
         LET rr == IF insert_ok
                   THEN [ t.rule_result EXCEPT !.items_created = @ + 1 ]
                   ELSE t.rule_result
         IN  /\ feed_items' = IF insert_ok
                              THEN feed_items \cup
                                     { NewFeedItem(feed_items, Head(t.emails_left),
                                                   t.feed_id, now) }
                              ELSE feed_items
             /\ tasks' = Replace(t,
                   IF calls_server(Head(t.rules_left))
                   THEN [ t EXCEPT !.pc = "post", !.rule_result = rr ]
                   ELSE NextEmail(t, rr))
    /\ UNCHANGED << config, dbVars, mailbox, now, is_running,
                    account_states, processing_semaphore, next_tick, tick,
                    last_cleanup >>
    /\ UNCHANGED << pureVars, serviceVars >>

\* process_rule, one email: create_feed_item, and post_process_email when
\* the post action of the rule does not call the server
create_feed_item(t) ==
    /\ t \in tasks /\ t.pc = "insert"
    /\ Cardinality(feed_items) < MaxStore
    /\ \E insert_ok \in BOOLEAN :
         IF insert_ok
         THEN /\ feed_items' = feed_items \cup
                    { NewFeedItem(feed_items, Head(t.emails_left), t.feed_id, now) }
              /\ LET rr == [ t.rule_result EXCEPT !.items_created = @ + 1 ]
                 IN  tasks' = Replace(t,
                       IF calls_server(Head(t.rules_left))
                       THEN [ t EXCEPT !.pc = "post", !.rule_result = rr ]
                       ELSE NextEmail(t, rr))
         ELSE /\ feed_items' = feed_items
              /\ tasks' = Replace(t, NextEmail(t, t.rule_result))
    /\ UNCHANGED << config, dbVars, mailbox, now, is_running,
                    account_states, processing_semaphore, next_tick, tick,
                    last_cleanup >>
    /\ UNCHANGED << pureVars, serviceVars >>

\* ImapClient::mark_as_read_in_folder: the message gets the flag \Seen
mark_as_read_in_folder(mb, uid, folder) ==
    [ mb EXCEPT ![folder] =
        { IF m.uid = uid THEN [ m EXCEPT !.seen = TRUE ] ELSE m : m \in @ } ]

\* ImapClient::delete_email_in_folder: the message leaves the folder
delete_email_in_folder(mb, uid, folder) ==
    [ mb EXCEPT ![folder] = { m \in @ : m.uid # uid } ]

\* ImapClient::move_to_folder_from_folder: the message leaves the folder
\* for the target folder
move_to_folder_from_folder(mb, uid, folder, target) ==
    IF target \in DOMAIN mb /\ target # folder
    THEN [ mb EXCEPT ![folder] = { m \in @ : m.uid # uid },
                     ![target] = @ \cup { m \in mb[folder] : m.uid = uid } ]
    ELSE mb

\* the mailbox after the post action of the rule on the message uid
post_action(mb, uid, rule) ==
    LET action == from_str(rule.post_process_action)
    IN  CASE action = "MarkAsRead" -> mark_as_read_in_folder(mb, uid, rule.folder)
          [] action = "Delete" -> delete_email_in_folder(mb, uid, rule.folder)
          [] action = "MoveToFolder" ->
                move_to_folder_from_folder(mb, uid, rule.folder,
                                           Unwrap(rule.move_to_folder))
          [] OTHER -> mb

\* mutant: a failed post action fails the rule
post_process_email_fatal(t) ==
    /\ t \in tasks /\ t.pc = "post"
    /\ \E post_ok \in BOOLEAN :
         /\ mailbox' = IF post_ok
                       THEN post_action(mailbox, Head(t.emails_left).uid,
                                        Head(t.rules_left))
                       ELSE mailbox
         /\ tasks' = Replace(t, IF post_ok THEN NextEmail(t, t.rule_result)
                                ELSE RuleFailed(t, "PostProcessFailed"))
    /\ UNCHANGED << config, dbVars, feed_items, now, is_running,
                    account_states, processing_semaphore, next_tick, tick,
                    last_cleanup >>
    /\ UNCHANGED << pureVars, serviceVars >>

\* process_rule, one email: post_process_email of a rule whose post action
\* calls the server; "if let Err(e) = .. { warn!(..) }"
post_process_email(t) ==
    /\ t \in tasks /\ t.pc = "post"
    /\ \E post_ok \in BOOLEAN :
         /\ mailbox' = IF post_ok
                       THEN post_action(mailbox, Head(t.emails_left).uid,
                                        Head(t.rules_left))
                       ELSE mailbox
         /\ tasks' = Replace(t, NextEmail(t, t.rule_result))
    /\ UNCHANGED << config, dbVars, feed_items, now, is_running,
                    account_states, processing_semaphore, next_tick, tick,
                    last_cleanup >>
    /\ UNCHANGED << pureVars, serviceVars >>

\* tokio::time::timeout(config.max_processing_time(), process_account())
processing_timeout(t) ==
    /\ t \in tasks /\ t.pc \in ProcessorPcs
    /\ InstantNow >= t.started + max_processing_time(config)
    /\ FailureAllowed(t.account)
    /\ tasks' = Replace(t, Returned(t, "err", "Processing timeout", EmptyResult))
    /\ UNCHANGED << config, dbVars, feed_items, mailbox, now, is_running,
                    account_states, processing_semaphore, next_tick, tick,
                    last_cleanup >>
    /\ UNCHANGED << pureVars, serviceVars >>

(***************************************************************************)
(* scheduler.rs: operations                                                *)
(***************************************************************************)
\* BackgroundService::start: EmailScheduler::start with
\* initialize_account_states, then start_control_handler.  The spawned
\* loop creates its tickers, whose first ticks are due at once.  Only the
\* first handler owns the receiver of the control channel.
start ==
    /\ ~is_running
    /\ is_running' = TRUE
    /\ scheduler_loop' = TRUE
    /\ next_cleanup' = InstantNow
    /\ control_handler' = IF control_handler = "none" THEN "recv"
                          ELSE control_handler
    /\ account_states' =
         [ a \in DOMAIN account_states \cup Range(imap_accounts) |->
             IF HasState(a) THEN account_states[a]
             ELSE NewAccountState(InstantNow) ]
    /\ next_tick' = InstantNow
    /\ UNCHANGED << config, dbVars, feed_items, mailbox, now,
                    processing_semaphore, tick, tasks, last_cleanup >>
    /\ UNCHANGED << pureVars, is_paused, cancellation_token, stop_call >>

\* mutant: a success does not reset the retry state
record_success_keeps_retry(st, t_now) ==
    [ st EXCEPT !.stats.last_run = Some(t_now),
                !.stats.last_success = Some(t_now),
                !.stats.last_error = None,
                !.next_allowed_run = t_now + per_account_interval(config) ]

\* the account state after a run that returned Ok
record_success(st, t_now) ==
    [ st EXCEPT !.stats.last_run = Some(t_now),
                !.stats.last_success = Some(t_now),
                !.stats.last_error = None,
                !.stats.consecutive_failures = 0,
                !.retry_count = 0,
                !.next_allowed_run = t_now + per_account_interval(config) ]

\* the account state after a run that returned Err or timed out
record_failure(st, e, t_now) ==
    LET retry_count == st.retry_count + 1
        in_budget   == retry_count <= config.retry.max_attempts
        retry_delay == IF in_budget
                       THEN calculate_retry_delay(config, retry_count - 1)
                       ELSE per_account_interval(config)
    IN  [ st EXCEPT !.stats.last_run = Some(t_now),
                    !.stats.last_error = e,
                    !.stats.consecutive_failures = @ + 1,
                    !.retry_count = IF in_budget THEN retry_count ELSE 0,
                    !.next_allowed_run = t_now + retry_delay ]

\* "match result { Ok(..) => .. Err(e) => .. }" of the worker and of
\* process_account_now
record_outcome(st, t) ==
    IF t.outcome = "ok" THEN record_success(st, InstantNow)
    ELSE record_failure(st, t.error, InstantNow)

\* process_due_accounts: "let should_process = .."
should_process(a, t_now) ==
    IF HasState(a)
    THEN ~account_states[a].is_processing
         /\ t_now >= account_states[a].next_allowed_run
    ELSE TRUE

\* run_scheduler_loop, ticker.tick(): process_due_accounts loads the
\* accounts and reads the clock
process_due_accounts_begin ==
    /\ scheduler_loop
    /\ tick.pc = "idle"
    /\ InstantNow >= next_tick
    /\ next_tick' = next_tick + global_interval(config)
    /\ tick' = IF imap_accounts = <<>> THEN IdleTick
               ELSE [ pc |-> "loop", left |-> imap_accounts, now |-> InstantNow ]
    /\ UNCHANGED << config, dbVars, feed_items, mailbox, now, is_running,
                    account_states, processing_semaphore, tasks, last_cleanup >>
    /\ UNCHANGED << pureVars, serviceVars >>

\* process_due_accounts, one iteration of "for account in accounts": a due
\* account is marked and its worker spawned when a permit is available;
\* the worker takes the permit itself
process_due_accounts_step ==
    /\ tick.pc = "loop"
    /\ LET a     == Head(tick.left)
           spawn == should_process(a, tick.now) /\ processing_semaphore > 0
       IN  /\ account_states' =
                IF spawn /\ HasState(a)
                THEN [ account_states EXCEPT ![a].is_processing = TRUE ]
                ELSE account_states
           /\ tasks' = IF spawn
                       THEN tasks \cup { NewTask("scheduled", a, "spawned") }
                       ELSE tasks
    /\ tick' = IF Len(tick.left) = 1 THEN IdleTick
               ELSE [ tick EXCEPT !.left = Tail(@) ]
    /\ UNCHANGED << config, dbVars, feed_items, mailbox, now, is_running,
                    processing_semaphore, next_tick, last_cleanup >>
    /\ UNCHANGED << pureVars, serviceVars >>

\* mutant: the worker runs the processor without taking a permit
worker_acquire_nopermit(t) ==
    /\ t \in tasks /\ t.kind = "scheduled" /\ t.pc = "spawned"
    /\ tasks' = Replace(t, [ t EXCEPT !.pc = "rules", !.started = InstantNow ])
    /\ UNCHANGED << config, dbVars, feed_items, mailbox, now, is_running,
                    account_states, processing_semaphore, next_tick, tick,
                    last_cleanup >>
    /\ UNCHANGED << pureVars, serviceVars >>

\* the spawned worker: "let _permit = semaphore.acquire().await"
worker_acquire(t) ==
    /\ t \in tasks /\ t.kind = "scheduled" /\ t.pc = "spawned"
    /\ processing_semaphore > 0
    /\ processing_semaphore' = processing_semaphore - 1
    /\ tasks' = Replace(t, [ t EXCEPT !.pc = "rules", !.started = InstantNow ])
    /\ UNCHANGED << config, dbVars, feed_items, mailbox, now, is_running,
                    account_states, next_tick, tick, last_cleanup >>
    /\ UNCHANGED << pureVars, serviceVars >>

\* the spawned worker after the processor returned: the account state is
\* written, the task ends and drops its permit
worker_finish(t) ==
    /\ t \in tasks /\ t.kind = "scheduled" /\ t.pc = "update"
    /\ account_states' =
         IF HasState(t.account)
         THEN [ account_states EXCEPT ![t.account] =
                  record_outcome([ @ EXCEPT !.is_processing = FALSE ], t) ]
         ELSE account_states
    /\ processing_semaphore' = processing_semaphore + 1
    /\ tasks' = tasks \ {t}
    /\ UNCHANGED << config, dbVars, feed_items, mailbox, now, is_running,
                    next_tick, tick, last_cleanup >>
    /\ UNCHANGED << pureVars, serviceVars >>

\* service.rs, control handler: ControlMessage::ProcessAccountNow is
\* received; the handler awaits process_account_now, so it serves one
\* command at a time
control_process_account_now(a) ==
    /\ control_handler = "recv"
    /\ a \in Range(imap_accounts)
    /\ ~ \E t \in tasks : t.kind = "manual"
    /\ tasks' = tasks \cup { NewTask("manual", a, "acquire") }
    /\ UNCHANGED << config, dbVars, feed_items, mailbox, now, is_running,
                    account_states, processing_semaphore, next_tick, tick,
                    last_cleanup >>
    /\ UNCHANGED << pureVars, serviceVars >>

\* process_account_now: permit, then get_account_by_id, whose failure
\* returns at once
process_account_now_acquire(t) ==
    /\ t \in tasks /\ t.kind = "manual" /\ t.pc = "acquire"
    /\ processing_semaphore > 0
    /\ \E found \in BOOLEAN :
         IF found
         THEN /\ processing_semaphore' = processing_semaphore - 1
              /\ tasks' = Replace(t, [ t EXCEPT !.pc = "rules", !.started = InstantNow ])
         ELSE /\ processing_semaphore' = processing_semaphore
              /\ tasks' = tasks \ {t}
    /\ UNCHANGED << config, dbVars, feed_items, mailbox, now, is_running,
                    account_states, next_tick, tick, last_cleanup >>
    /\ UNCHANGED << pureVars, serviceVars >>

\* process_account_now after the processor returned
process_account_now_finish(t) ==
    /\ t \in tasks /\ t.kind = "manual" /\ t.pc = "update"
    /\ account_states' =
         IF HasState(t.account)
         THEN [ account_states EXCEPT ![t.account] = record_outcome(@, t) ]
         ELSE account_states
    /\ processing_semaphore' = processing_semaphore + 1
    /\ tasks' = tasks \ {t}
    /\ UNCHANGED << config, dbVars, feed_items, mailbox, now, is_running,
                    next_tick, tick, last_cleanup >>
    /\ UNCHANGED << pureVars, serviceVars >>

\* a recorded Instant of the past after a step of the clock; the model
\* does not tell apart the Instants further back than one step
Earlier(o) == IF IsSome(o) THEN Some(InstantNow - ClockStep) ELSE o

\* ClockStep seconds pass: the wall clock advances and every stored
\* Instant moves into the past by as much.  Distances are kept only as far
\* as the program can tell them apart: "now >= next_allowed_run" and the
\* elapsed time up to max_processing_time.  The loop of one tick takes less
\* than ClockStep.
advance_clock ==
    /\ now + ClockStep <= MaxClock
    /\ tick.pc = "idle"
    /\ now' = now + ClockStep
    /\ account_states' =
         [ a \in DOMAIN account_states |->
             [ account_states[a] EXCEPT
                 !.next_allowed_run = Max(InstantNow, @ - ClockStep),
                 !.stats.last_run = Earlier(@),
                 !.stats.last_success = Earlier(@) ] ]
    /\ next_tick' = next_tick - ClockStep
    /\ tasks' = { IF t.pc \in ProcessorPcs
                  THEN [ t EXCEPT !.started =
                           Max(InstantNow - max_processing_time(config),
                               @ - ClockStep) ]
                  ELSE t : t \in tasks }
    /\ next_cleanup' = next_cleanup - ClockStep
    /\ stop_call' = IF IsSome(stop_call)
                    THEN Some(Max(InstantNow, Unwrap(stop_call) - ClockStep))
                    ELSE stop_call
    /\ UNCHANGED << config, dbVars, feed_items, mailbox, is_running,
                    processing_semaphore, tick, last_cleanup >>
    /\ UNCHANGED << pureVars, is_paused, control_handler, cancellation_token,
                    scheduler_loop >>

(***************************************************************************)
(* cleanup.rs and the listing of operations.rs.  The store operations of   *)
(* the compactor succeed.                                                  *)
(***************************************************************************)
\* CleanupResult::default
EmptyCleanup == [ feeds_processed |-> 0, items_removed |-> 0, errors |-> 0 ]

\* "ORDER BY pub_date DESC" on the rows S: the order of rows with equal
\* pub_date is left to the database, so this is the set of the sequences
\* it may give
RECURSIVE order_by_pub_date_desc(_)
order_by_pub_date_desc(S) ==
    IF S = {} THEN { << >> }
    ELSE UNION { { << x >> \o rest : rest \in order_by_pub_date_desc(S \ {x}) } :
                 x \in { y \in S : \A z \in S : y.pub_date >= z.pub_date } }

\* FeedItemOps::get_by_feed_id without limit
get_by_feed_id(items, feed_id_val) ==
    order_by_pub_date_desc({ it \in items : it.feed_id = feed_id_val })

\* Vec::sort_by(|a, b| a.created_at.cmp(&b.created_at)): stable, oldest
\* first
RECURSIVE sort_by_created_at(_)
sort_by_created_at(s) ==
    IF Len(s) <= 1 THEN s
    ELSE LET rest == sort_by_created_at(Tail(s))
             h    == Head(s)
             \* h goes before the first element that is not older
             k    == Cardinality({ i \in 1..Len(rest) :
                                     rest[i].created_at < h.created_at })
         IN  SubSeq(rest, 1, k) \o <<h>> \o SubSeq(rest, k + 1, Len(rest))

\* the ids of a sequence of rows
Ids(s) == [ i \in DOMAIN s |-> s[i].id ]

\* mutant: the age filter marks nothing
marked_by_age_off(feed, all_items, utc_now) == <<>>

\* cleanup_feed, "1. Age-based cleanup": the ids of the rows created
\* before the cutoff, in the order of the listing
marked_by_age(feed, all_items, utc_now) ==
    IF IsSome(feed.max_age_days)
    THEN LET cutoff_date == utc_now - Unwrap(feed.max_age_days) * DaySeconds
         IN  Ids(SelectSeq(all_items, LAMBDA it : it.created_at < cutoff_date))
    ELSE <<>>

\* mutant: the count filter takes one row per run
marked_by_count_one(feed, all_items, marked) ==
    IF IsSome(feed.max_items) /\ Len(all_items) > Unwrap(feed.max_items)
    THEN LET sorted_items == sort_by_created_at(all_items)
         IN  marked \o SelectSeq(Ids(SubSeq(sorted_items, 1, 1)),
                                 LAMBDA id : id \notin Range(marked))
    ELSE marked

\* cleanup_feed, "2. Count-based cleanup": above max_items the oldest
\* len - max(max_items, min_items) rows are added unless already marked
marked_by_count(feed, all_items, marked) ==
    IF IsSome(feed.max_items) /\ Len(all_items) > Unwrap(feed.max_items)
    THEN LET min_items    == IF IsSome(feed.min_items)
                             THEN Unwrap(feed.min_items) ELSE 0
             target_count == Max(Unwrap(feed.max_items), min_items)
             by_count     == Max(0, Len(all_items) - target_count)
             sorted_items == sort_by_created_at(all_items)
         IN  marked \o SelectSeq(Ids(SubSeq(sorted_items, 1, by_count)),
                                 LAMBDA id : id \notin Range(marked))
    ELSE marked

\* mutant: the removal list is not shortened
respect_min_items_off(feed, all_items, marked) == marked

\* cleanup_feed, "Ensure we don't remove more than we should": the removal
\* list loses its last entries until min_items rows are left
respect_min_items(feed, all_items, marked) ==
    IF IsSome(feed.min_items)
    THEN LET min_items           == Unwrap(feed.min_items)
             items_after_removal == Max(0, Len(all_items) - Len(marked))
         IN  IF items_after_removal < min_items
             THEN SubSeq(marked, 1,
                         Max(0, Len(marked) - (min_items - items_after_removal)))
             ELSE marked
    ELSE marked

\* mutant: the count filter is left out
cleanup_feed_no_count(feed, all_items, utc_now) ==
    respect_min_items(feed, all_items, marked_by_age(feed, all_items, utc_now))

\* FeedCleanupService::cleanup_feed on the listing all_items: the ids it
\* deletes
cleanup_feed(feed, all_items, utc_now) ==
    respect_min_items(feed, all_items,
        marked_by_count(feed, all_items,
            marked_by_age(feed, all_items, utc_now)))

\* FeedCleanupService::cleanup_all_feeds: every feed is listed and
\* cleaned; listing is the order in which the database lists the rows
CleanupAllFeeds ==
    \E listing \in [ Range(feeds) -> UNION { get_by_feed_id(feed_items, f.id) :
                                               f \in Range(feeds) } ] :
      /\ \A f \in Range(feeds) : listing[f] \in get_by_feed_id(feed_items, f.id)
      /\ LET removed == UNION { Range(cleanup_feed(f, listing[f], now)) :
                                f \in Range(feeds) }
         IN  /\ feed_items' = { it \in feed_items : it.id \notin removed }
             /\ last_cleanup' = [ feeds_processed |-> Len(feeds),
                                  items_removed   |-> Cardinality(removed),
                                  errors          |-> 0 ]

\* the compactor is run for all feeds on its own
cleanup_all_feeds ==
    /\ CleanupAllFeeds
    /\ UNCHANGED << config, dbVars, mailbox, now, is_running,
                    account_states, processing_semaphore, next_tick, tick,
                    tasks >>
    /\ UNCHANGED << pureVars, serviceVars >>

\* run_scheduler_loop: "interval(Duration::from_secs(24 * 60 * 60))"
CleanupInterval == DaySeconds

\* run_scheduler_loop, cleanup_ticker.tick(): run_cleanup
run_cleanup ==
    /\ scheduler_loop
    /\ tick.pc = "idle"
    /\ InstantNow >= next_cleanup
    /\ next_cleanup' = next_cleanup + CleanupInterval
    /\ CleanupAllFeeds
    /\ UNCHANGED << config, dbVars, mailbox, now, is_running,
                    account_states, processing_semaphore, next_tick, tick,
                    tasks >>
    /\ UNCHANGED << pureVars, is_paused, control_handler,
                    cancellation_token, scheduler_loop, stop_call >>

(***************************************************************************)
(* Specifications                                                          *)
(***************************************************************************)

\* EmailScheduler::new: no account state, all permits free, not running
SchedulerNew(c) ==
    /\ config = c
    /\ validate(c)
    /\ now = 0
    /\ is_running = FALSE
    /\ account_states = << >>
    /\ processing_semaphore = c.max_concurrent_accounts
    /\ next_tick = 0
    /\ tick = IdleTick
    /\ tasks = {}
    /\ last_cleanup = EmptyCleanup
    /\ stream = Nothing
    /\ session = Nothing
    /\ call = Nothing
    /\ is_paused = FALSE
    /\ control_handler = "none"
    /\ cancellation_token = FALSE
    /\ scheduler_loop = FALSE
    /\ next_cleanup = InstantNow
    /\ stop_call = Nothing

\* two accounts without rules, two permits
Init ==
    /\ SchedulerNew(from_env(5, 5, 2, 2, 30, 100, 300))
    /\ imap_accounts = << "a1", "a2" >>
    /\ email_rules = << >>
    /\ feeds = << >>
    /\ feed_items = {}
    /\ mailbox = [ f \in { "INBOX" } |-> {} ]

SchedulerNext ==
    \/ start
    \/ process_due_accounts_begin
    \/ process_due_accounts_step
    \/ \E t \in tasks : worker_acquire(t)
    \/ \E t \in tasks : worker_finish(t)
    \/ \E a \in Range(imap_accounts) : control_process_account_now(a)
    \/ \E t \in tasks : process_account_now_acquire(t)
    \/ \E t \in tasks : process_account_now_finish(t)
    \/ \E t \in tasks : process_account_begin(t)
    \/ \E t \in tasks : processing_timeout(t)
    \/ advance_clock

Next == SchedulerNext

Spec == Init /\ [][Next]_vars

\* one account; the retry settings main.rs can get from the environment:
\* the defaults (30 s, 3 attempts) and a delay that reaches
\* max_delay_seconds at the second failure
RetryConfigs ==
    { from_env(5, 5, 1, 3, 30, 100, 300), from_env(5, 5, 1, 2, 200, 100, 300) }

InitRetry ==
    /\ \E c \in RetryConfigs : SchedulerNew(c)
    /\ imap_accounts = << "a1" >>
    /\ email_rules = << >>
    /\ feeds = << >>
    /\ feed_items = {}
    /\ mailbox = [ f \in { "INBOX" } |-> {} ]

SpecRetry == InitRetry /\ [][Next]_vars

\* an EmailRule row of account a1 on INBOX that leaves the message in place
Rule(subject) ==
    [ id |-> "r1", imap_account_id |-> "a1", folder |-> "INBOX",
      to_address |-> Nothing, from_address |-> Nothing,
      subject_contains |-> subject, is_active |-> TRUE,
      post_process_action |-> "do_nothing", move_to_folder |-> Nothing ]

\* a Feed row of rule r1; NewFeed::new gives 100, 30, 10
FeedRow(max_items, max_age_days, min_items) ==
    [ id |-> "f1", email_rule_id |-> "r1", max_items |-> max_items,
      max_age_days |-> max_age_days, min_items |-> min_items ]

\* the folders of the processing specifications, by the UIDs they hold
Folders == { {1}, {2}, {3}, {1, 4}, {2, 5} }

\* the store of the processing specifications: one account, one rule with
\* one of the subject criteria, its feed, no item; the folder is one of
\* folders
StoreProc(subjects, folders) ==
    /\ imap_accounts = << "a1" >>
    /\ \E subject \in subjects : email_rules = << Rule(subject) >>
    /\ feeds = << FeedRow(Some(100), Some(30), Some(10)) >>
    /\ feed_items = {}
    /\ \E uids \in folders :
         mailbox = [ f \in { "INBOX" } |->
                       { m \in RawMessages : m.uid \in uids } ]

NextProc ==
    \/ SchedulerNext
    \/ \E t \in tasks : process_rule_begin(t)
    \/ \E t \in tasks : process_email(t)
    \/ \E t \in tasks : create_feed_item(t)

\* one permit: the runs of the account follow one another
InitProc ==
    /\ SchedulerNew(from_env(5, 5, 1, 1, 30, 100, 300))
    /\ StoreProc({ Nothing, Some(<< "a" >>) }, Folders)

SpecProc == InitProc /\ [][NextProc]_vars

\* two permits: a manual trigger may run beside the worker of the account
InitOverlap ==
    /\ SchedulerNew(from_env(5, 5, 2, 1, 30, 100, 300))
    /\ StoreProc({ Nothing }, { {1}, {1, 4} })

SpecOverlap == InitOverlap /\ [][NextProc]_vars

\* a FeedItem row of feed f1
FeedItemRow(id, created_at, pub_date) ==
    [ id |-> id, feed_id |-> "f1", title |-> << "A" >>, pub_date |-> pub_date,
      email_message_id |-> << >>, email_from |-> << "b" >>,
      created_at |-> created_at ]

\* the creation time of row id: two days ago, one day ago to the second,
\* or seconds ago; rows of one kind other than "edge" differ
CreatedAt(kind, id) ==
    CASE kind = "old"   -> id - 2 * DaySeconds
      [] kind = "edge"  -> 0 - DaySeconds
      [] kind = "fresh" -> 0 - id

\* the rows 1..n of feed f1
Rows(n, kinds, pubs) ==
    { FeedItemRow(i, CreatedAt(kinds[i], i), pubs[i]) : i \in 1..n }

\* the store of the compactor specification: feed f1 with any retention
\* settings and up to four rows of any age (ids are arbitrary, so the rows
\* are numbered by kind), or the feed of scenario S4 (max_items 2,
\* max_age_days 1, min_items 1) with five rows older than a day; pub_date
\* is independent of created_at
StoreCleanup ==
    /\ imap_accounts = << "a1" >>
    /\ email_rules = << Rule(Nothing) >>
    /\ mailbox = [ f \in { "INBOX" } |-> {} ]
    /\ \/ \E n \in 0..4 :
           \E kinds \in { k \in [ 1..n -> { "old", "edge", "fresh" } ] :
                            \A i, j \in 1..n :
                              (i < j /\ k[i] # k[j]) =>
                                \/ k[i] = "old"
                                \/ k[j] = "fresh" } :
           \E pubs \in [ 1..n -> { 100, 200 } ] :
           \E max_items \in { Nothing, Some(0), Some(2) } :
           \E max_age_days \in { Nothing, Some(0), Some(1) } :
           \E min_items \in { Nothing, Some(1), Some(3) } :
             /\ feeds = << FeedRow(max_items, max_age_days, min_items) >>
             /\ feed_items = Rows(n, kinds, pubs)
       \/ \E pubs \in [ 1..5 -> { 100, 200 } ] :
             /\ feeds = << FeedRow(Some(2), Some(1), Some(1)) >>
             /\ feed_items = Rows(5, [ i \in 1..5 |-> "old" ], pubs)

InitCleanup ==
    /\ SchedulerNew(DefaultConfig)
    /\ StoreCleanup

NextCleanup ==
    \/ cleanup_all_feeds
    \/ advance_clock

SpecCleanup == InitCleanup /\ [][NextCleanup]_vars

(***************************************************************************)
(* Scheduler properties                                                    *)
(***************************************************************************)
\* the Processor invocations in flight for account a
InFlightOf(a) == { t \in InFlight : t.account = a }

\* the workers a tick has spawned that wait for their permit
Waiting == { t \in tasks : t.kind = "scheduled" /\ t.pc = "spawned" }

\* C1: for every account at most one Processor invocation is in flight,
\* scheduled workers and manual triggers counted together.
\* process_account_now neither reads nor sets is_processing, so this is
\* violated.
C1_OneInvocationPerAccount ==
    \A a \in Range(imap_accounts) : Cardinality(InFlightOf(a)) <= 1

\* C2: the Processor invocations in flight, of scheduled workers and of
\* process_account_now together, never exceed max_concurrent_accounts.
C2_PermitCap ==
    Cardinality(InFlight) <= config.max_concurrent_accounts

\* C2 witness: every permit is in use by an invocation, a scheduled and a
\* manual one among them, while a further worker waits for a permit
C2_Witness ==
    /\ Cardinality(InFlight) = config.max_concurrent_accounts
    /\ \E t \in InFlight : t.kind = "manual"
    /\ \E t \in InFlight : t.kind = "scheduled"
    /\ Waiting # {}

\* C9: a step of the tick that starts a worker leaves no more started
\* workers without a permit than there are free permits, i.e. an eligible
\* account for which no permit is free is left untouched.
\* The tick only reads available_permits() and the worker takes the permit
\* later, so this is violated.
C9_StartsOnlyForFreePermits ==
    [][ (tick.pc = "loop" /\ Waiting' # Waiting)
          => Cardinality(Waiting') <= processing_semaphore ]_vars

\* the delay the backoff rule prescribes for the j-th consecutive failure
BackoffRule(j) ==
    Min(config.retry.initial_delay_seconds
          * powi(config.retry.backoff_multiplier, j - 1),
        config.retry.max_delay_seconds)

\* C7: a step that records the j-th consecutive failure of an account,
\* j <= max_attempts, sets next_allowed_run to now + min(initial_delay *
\* multiplier^(j-1), max_delay); a recorded failure that takes retry_count
\* above max_attempts resets retry_count to 0 and sets next_allowed_run to
\* now + per_account_interval.
C7_Backoff ==
    [][ \A a \in DOMAIN account_states :
          LET st  == account_states[a]
              st2 == account_states'[a]
              j   == st.stats.consecutive_failures + 1
          IN  st2.stats.consecutive_failures = j =>
                /\ j <= config.retry.max_attempts =>
                      /\ st2.retry_count = j
                      /\ st2.next_allowed_run = InstantNow + BackoffRule(j)
                      /\ st2.next_allowed_run <= InstantNow + config.retry.max_delay_seconds
                /\ st.retry_count + 1 > config.retry.max_attempts =>
                      /\ st2.retry_count = 0
                      /\ st2.next_allowed_run =
                           InstantNow + per_account_interval(config) ]_vars

\* C7 witness: the failure past max_attempts has been recorded under a
\* configuration whose delay was cut to max_delay on the way
C7_Witness ==
    /\ config.retry.initial_delay_seconds
         * powi(config.retry.backoff_multiplier, config.retry.max_attempts - 1)
         > config.retry.max_delay_seconds
    /\ \E a \in DOMAIN account_states :
         /\ account_states[a].stats.consecutive_failures
              = config.retry.max_attempts + 1
         /\ account_states[a].retry_count = 0
         /\ account_states[a].stats.last_error # None
         /\ account_states[a].next_allowed_run
              = InstantNow + per_account_interval(config)

(***************************************************************************)
(* Processor properties                                                    *)
(***************************************************************************)
\* two rows of one feed
SameFeed(it1, it2) == it1.feed_id = it2.feed_id /\ it1.id # it2.id

\* C3: whenever no processing run is in flight, no feed holds two items
\* with the same non-empty email_message_id, overlapping runs of one
\* account included.
\* Two runs of one account overlap (C1) and both pass the duplicate test
\* before either inserts, so this is violated under SpecOverlap.
C3_NoDuplicateMessageId ==
    InFlight = {} =>
      \A it1, it2 \in feed_items :
        (SameFeed(it1, it2) /\ it1.email_message_id # <<>>)
          => it1.email_message_id # it2.email_message_id

\* C4: the folder never changes in SpecProc and its runs follow one
\* another, so a run after the first inserts nothing: no feed holds two
\* items made from one message, with or without Message-ID and with or
\* without a Date header that parses.
\* A message without Message-ID whose Date does not parse is dated
\* Utc::now() by every parse, so the test by title, sender and date misses
\* its item and this is violated.
C4_SecondRunInsertsNothing ==
    \A it1, it2 \in feed_items :
      SameFeed(it1, it2) =>
        ~ ( /\ it1.title = it2.title
            /\ it1.email_from = it2.email_from
            /\ it1.email_message_id = it2.email_message_id )

\* the run of task t hit a connection, TLS or login failure on a rule
HitFetchError(t) ==
    \E i \in 1..Len(t.result.errors) : t.result.errors[i][2] \in FetchErrors

\* C8: when the run of an account hit a connection, TLS or login failure
\* on a rule, the step that writes the account state counts a failure:
\* retry_count and consecutive_failures go up by one (retry_count back to
\* 0 past max_attempts), last_error is set and next_allowed_run follows
\* the backoff rule.
\* process_account returns Ok with the failure in result.errors, so the
\* scheduler records a success and this is violated.
C8_FetchFailureCounts ==
    [][ \A t \in tasks :
          (t.pc = "update" /\ t \notin tasks' /\ HitFetchError(t)
             /\ HasState(t.account)) =>
            LET st  == account_states[t.account]
                st2 == account_states'[t.account]
            IN  /\ st2.stats.consecutive_failures
                     = st.stats.consecutive_failures + 1
                /\ st2.stats.last_error # None
                /\ IF st.retry_count + 1 <= config.retry.max_attempts
                   THEN /\ st2.retry_count = st.retry_count + 1
                        /\ st2.next_allowed_run
                             = InstantNow + BackoffRule(st.retry_count + 1)
                   ELSE st2.retry_count = 0 ]_vars

(***************************************************************************)
(* Compactor properties                                                    *)
(***************************************************************************)
\* the rows of feed f in the table items
ItemsOf(items, f) == { it \in items : it.feed_id = f.id }

\* a step of the compactor: it writes its CleanupResult and takes rows out
\* of the table
CompactorStep ==
    \/ last_cleanup' # last_cleanup
    \/ feed_items' # feed_items /\ feed_items' \subseteq feed_items

\* the row is older than the age limit of its feed
TooOld(f, it) ==
    IsSome(f.max_age_days)
      /\ it.created_at < now - Unwrap(f.max_age_days) * DaySeconds

ScenarioS4(f) ==
    /\ f.max_items = Some(2) /\ f.min_items = Some(1) /\ f.max_age_days = Some(1)
    /\ Cardinality(ItemsOf(feed_items, f)) = 5
    /\ \A it \in ItemsOf(feed_items, f) : TooOld(f, it)
    /\ \A it1, it2 \in ItemsOf(feed_items, f) :
         it1.id # it2.id => it1.created_at # it2.created_at

MaxLen == 4

CR == "CR"
LF == "LF"
Bytes == { CR, LF, "x" }

\* the byte strings of length n
ByteStringsOf(n) == [ 1..n -> Bytes ]

\* the byte strings up to MaxLen bytes
ByteStrings == UNION { ByteStringsOf(n) : n \in 0..MaxLen }

\* CrlfStreamWrapper::new / new_passthrough over an inner stream that has
\* received nothing; buf is the argument of the latest poll_write, inner
\* the processed data that call has handed to the inner stream, sent the
\* bytes the inner stream has accepted in all calls, reported the bytes
\* of the caller that the calls have returned as written
NewStream(enable) ==
    [ enable_crlf_processing |-> enable, buf |-> << >>, inner |-> << >>,
      sent |-> << >>, reported |-> << >> ]

\* mutant: CR is pushed before every LF
process_outgoing_data_every_lf(w, data) ==
    IF ~w.enable_crlf_processing THEN data
    ELSE LET processed[i \in 0..Len(data)] ==
               IF i = 0 THEN << >>
               ELSE processed[i - 1]
                    \o (IF data[i] = LF THEN << CR >> ELSE << >>)
                    \o << data[i] >>
         IN  processed[Len(data)]

\* CrlfStreamWrapper::process_outgoing_data: "for (i, &byte) in
\* data.iter().enumerate()", processed[i] is the vector after byte i
process_outgoing_data(w, data) ==
    IF ~w.enable_crlf_processing THEN data
    ELSE LET processed[i \in 0..Len(data)] ==
               IF i = 0 THEN << >>
               ELSE processed[i - 1]
                    \o (IF data[i] = LF /\ (i = 1 \/ data[i - 1] # CR)
                        THEN << CR >> ELSE << >>)
                    \o << data[i] >>
         IN  processed[Len(data)]

\* CrlfStreamWrapper::new
CrlfStreamWrapper_new ==
    /\ stream = Nothing
    /\ stream' = NewStream(TRUE)
    /\ UNCHANGED << config, dbVars, feed_items, mailbox, now, is_running,
                    account_states, processing_semaphore, next_tick, tick,
                    tasks, last_cleanup, session, call, serviceVars >>

\* CrlfStreamWrapper::new_passthrough
new_passthrough ==
    /\ stream = Nothing
    /\ stream' = NewStream(FALSE)
    /\ UNCHANGED << config, dbVars, feed_items, mailbox, now, is_running,
                    account_states, processing_semaphore, next_tick, tick,
                    tasks, last_cleanup, session, call, serviceVars >>

\* AsyncWrite::poll_write: the processed data is written to the inner
\* stream, which accepts its first written bytes (Ok(_written)); the call
\* returns Ok(buf.len()).  The calls write MaxLen bytes at most.
poll_write(buf, written) ==
    /\ stream # Nothing
    /\ Len(stream.reported) + Len(buf) <= MaxLen
    /\ LET processed_data == process_outgoing_data(stream, buf)
       IN  /\ written <= Len(processed_data)
           /\ processed_data # << >> => written >= 1
           /\ stream' = [ stream EXCEPT
                            !.buf = buf,
                            !.inner = processed_data,
                            !.sent = @ \o SubSeq(processed_data, 1, written),
                            !.reported = @ \o buf ]
    /\ UNCHANGED << config, dbVars, feed_items, mailbox, now, is_running,
                    account_states, processing_semaphore, next_tick, tick,
                    tasks, last_cleanup, session, call, serviceVars >>

InitCrlf ==
    /\ SchedulerNew(DefaultConfig)
    /\ imap_accounts = << >>
    /\ email_rules = << >>
    /\ feeds = << >>
    /\ feed_items = {}
    /\ mailbox = [ f \in { "INBOX" } |-> {} ]

NextCrlf ==
    \/ CrlfStreamWrapper_new
    \/ new_passthrough
    \/ \E buf \in ByteStrings : \E written \in 0..(2 * MaxLen) :
         poll_write(buf, written)

SpecCrlf == InitCrlf /\ [][NextCrlf]_vars

\* byte i of b is a LF that no CR precedes
BareLF(b, i) == b[i] = LF /\ (i = 1 \/ b[i - 1] # CR)

\* every LF of b is preceded by CR
CrlfTerminated(b) == \A i \in DOMAIN b : ~BareLF(b, i)

\* b with CR LF in the place of every bare LF, from the last byte backwards
RECURSIVE WithCrlf(_)
WithCrlf(b) ==
    IF b = << >> THEN << >>
    ELSE LET n == Len(b)
         IN  WithCrlf(SubSeq(b, 1, n - 1))
             \o (IF BareLF(b, n) THEN << CR, LF >> ELSE << b[n] >>)

\* the wrapper processes and has been written to
Processing == stream # Nothing /\ stream.enable_crlf_processing

\* C11: what a processing wrapper hands to its inner stream is the written
\* buffer with CR LF for every bare LF and every other byte as it was; it
\* is the buffer itself when every LF of the buffer follows a CR; and
\* processing it once more gives the same bytes
C11_NormaliseIdempotent ==
    Processing =>
        /\ stream.inner = WithCrlf(stream.buf)
        /\ CrlfTerminated(stream.buf) => stream.inner = stream.buf
        /\ process_outgoing_data(stream, stream.inner) = stream.inner

\* a buffer with a bare LF and a CR LF has been written
C11_Witness ==
    /\ Processing
    /\ \E i \in DOMAIN stream.buf : BareLF(stream.buf, i)
    /\ \E i \in DOMAIN stream.buf : stream.buf[i] = LF /\ ~BareLF(stream.buf, i)
    /\ Len(stream.inner) = Len(stream.buf) + 1

(***************************************************************************)
(* client.rs: the session of an account and what it puts on the socket     *)
(***************************************************************************)
\* host names by their dot-separated parts
Hosts == { << "localhost" >>, << "127", "0", "0", "1" >>,
           << "192", "168", "1", "5" >>, << "172", "32", "0", "2" >>,
           << "imap", "example", "com" >> }

Ports == { 143, 993, 1143 }

\* str::starts_with for a prefix of whole parts followed by a dot
starts_with(host, prefix) ==
    /\ Len(host) > Len(prefix)
    /\ SubSeq(host, 1, Len(prefix)) = prefix

\* ProtocolCompat::is_protonmail_bridge, which no code calls
is_protonmail_bridge(host, port) ==
    LET is_local_host ==
            \/ host = << "localhost" >>
            \/ host = << "127", "0", "0", "1" >>
            \/ starts_with(host, << "10" >>)
            \/ starts_with(host, << "192", "168" >>)
            \/ \E n \in 16..31 : starts_with(host, << "172", ToString(n) >>)
        is_non_standard_port == port # 143 /\ port # 993
    IN  is_local_host /\ is_non_standard_port

\* connect_tls_sync / connect_plain_sync: the session is built on the
\* TcpStream or on the TlsStream over it
connect(host, port, use_tls) ==
    /\ session = Nothing
    /\ session' = [ host |-> host, port |-> port, use_tls |-> use_tls,
                    written |-> FALSE, buf |-> << >>, sent |-> << >> ]
    /\ UNCHANGED << config, dbVars, feed_items, mailbox, now, is_running,
                    account_states, processing_semaphore, next_tick, tick,
                    tasks, last_cleanup, stream, call, serviceVars >>

\* the session writes buf: the stream under the session is the socket
\* itself, which transmits the bytes it is given
session_write(buf) ==
    /\ session # Nothing
    /\ session' = [ session EXCEPT !.written = TRUE, !.buf = buf, !.sent = buf ]
    /\ UNCHANGED << config, dbVars, feed_items, mailbox, now, is_running,
                    account_states, processing_semaphore, next_tick, tick,
                    tasks, last_cleanup, stream, call, serviceVars >>

\* the session is dropped
logout ==
    /\ session # Nothing
    /\ session' = Nothing
    /\ UNCHANGED << config, dbVars, feed_items, mailbox, now, is_running,
                    account_states, processing_semaphore, next_tick, tick,
                    tasks, last_cleanup, stream, call, serviceVars >>

NextSession ==
    \/ \E host \in Hosts, port \in Ports, use_tls \in BOOLEAN :
         connect(host, port, use_tls)
    \/ \E buf \in ByteStrings : session_write(buf)
    \/ logout

SpecSession == InitCrlf /\ [][NextSession]_vars

\* C12: a session to a local host on a port other than 143 and 993
\* transmits CR LF for every bare LF it writes, and a session on port 143
\* transmits what it writes
C12_BridgeSessionNormalises ==
    (session # Nothing /\ session.written) =>
        /\ is_protonmail_bridge(session.host, session.port)
             => session.sent = WithCrlf(session.buf)
        /\ session.port = 143 => session.sent = session.buf


(***************************************************************************)
(* processor.rs: rules with a post action                                  *)
(***************************************************************************)
\* the rule r1 with a post action
RulePost(action, target) ==
    [ Rule(Nothing) EXCEPT !.post_process_action = action,
                           !.move_to_folder = target ]

\* the post actions a rule may name, with the target folder
PostActions ==
    { << "mark_read", Nothing >>, << "delete", Nothing >>,
      << "move_to_folder", Some("Archive") >>,
      << "move_to_folder", Nothing >>, << "do_nothing", Nothing >> }

\* one account, one rule with its feed, two messages in the folder
InitPost ==
    /\ SchedulerNew(from_env(5, 5, 1, 1, 30, 100, 300))
    /\ imap_accounts = << "a1" >>
    /\ \E pa \in PostActions : email_rules = << RulePost(pa[1], pa[2]) >>
    /\ feeds = << FeedRow(Some(100), Some(30), Some(10)) >>
    /\ feed_items = {}
    /\ mailbox = [ f \in { "INBOX", "Archive" } |->
                     IF f = "INBOX"
                     THEN { m \in RawMessages : m.uid \in { 1, 5 } }
                     ELSE {} ]

NextPost ==
    \/ NextProc
    \/ \E t \in tasks : post_process_email(t)

SpecPost == InitPost /\ [][NextPost]_vars

\* the step from t to u is the return of post_process_email with an error:
\* the server was called and the mailbox is as it was
PostFailed(t, u) ==
    /\ t \in tasks /\ t.pc = "post" /\ t \notin tasks'
    /\ u \in tasks' /\ u.pc # "post" /\ u \notin tasks /\ u.kind = t.kind
    /\ u.error # "Processing timeout"
    /\ mailbox' = mailbox

\* the feed items a run has counted so far
Created(t) ==
    t.result.new_feed_items_created
      + (IF t.pc \in { "email", "insert", "post" }
         THEN t.rule_result.items_created ELSE 0)

\* C13: when the post action of a message fails, the feed item of the
\* message stays in the store and in the count of created items, no error
\* is added to the run, and the run is at the next message of the folder
C13_PostFailureKeepsItem ==
    [][ \A t \in tasks : \A u \in tasks' :
          PostFailed(t, u) =>
            /\ feed_items' = feed_items
            /\ email_exists_in_feed(feed_items', Head(t.emails_left), t.feed_id)
            /\ Created(u) = Created(t) /\ Created(u) >= 1
            /\ u.outcome # "err" /\ u.result.errors = t.result.errors
            /\ Len(t.emails_left) > 1 =>
                 /\ u.pc = "email"
                 /\ u.emails_left = Tail(t.emails_left) ]_vars

\* the post action of the first message failed and the run is at the
\* second message
C13_Witness ==
    /\ calls_server(email_rules[1])
    /\ Cardinality(feed_items) = 1
    /\ mailbox["Archive"] = {}
    /\ Cardinality(mailbox["INBOX"]) = 2
    /\ \A m \in mailbox["INBOX"] : ~m.seen
    /\ \E t \in tasks : /\ t.pc = "email"
                        /\ Len(t.emails_left) = 1
                        /\ t.rule_result.items_created = 1

(***************************************************************************)
(* processor.rs: matches_rule and email_exists_in_feed on their own        *)
(***************************************************************************)
\* header texts of a message
HeaderTexts == { << >>, << "a" >>, << "A", "b" >>, << "b", "a" >> }

\* the criteria of a rule: absent, empty, or a text
Patterns == { Nothing, Some(<< >>), Some(<< "A" >>), Some(<< "a", "B" >>) }

\* a parsed message with the given headers
EmailOf(id, subj, sender, rcpt) ==
    [ uid |-> 1, message_id |-> id, subject |-> subj,
      from |-> sender, to |-> rcpt, date |-> 100 ]

\* the rule r1 with the given criteria
RuleOf(pf, pt, ps) ==
    [ Rule(ps) EXCEPT !.from_address = pf, !.to_address = pt ]

\* Message-IDs of the messages and of the rows
MessageIds == { << >>, << "m", "1" >>, << "m", "2" >> }

\* the row of feed f1 made from a message with subject A from b and the
\* Message-ID id
StoredRow(id) ==
    [ id |-> Len(id) + 1, feed_id |-> "f1", title |-> << "A" >>,
      pub_date |-> 100, email_message_id |-> id, email_from |-> << "b" >>,
      created_at |-> 0 ]

\* process_rule calls matches_rule(&email, rule)
call_matches_rule(hf, ht, hs, pf, pt, ps) ==
    /\ call = Nothing
    /\ LET email == EmailOf(<< >>, hs, hf, ht)
           rule  == RuleOf(pf, pt, ps)
       IN  call' = [ fn |-> "matches_rule", email |-> email, rule |-> rule,
                     items |-> {}, result |-> matches_rule(email, rule) ]
    /\ UNCHANGED << config, dbVars, feed_items, mailbox, now, is_running,
                    account_states, processing_semaphore, next_tick, tick,
                    tasks, last_cleanup, stream, session, serviceVars >>

\* process_rule calls email_exists_in_feed(&email, feed_id) on a table
\* that holds items
call_email_exists_in_feed(stored, id, hs) ==
    /\ call = Nothing
    /\ LET email == EmailOf(id, hs, << "b" >>, << "c" >>)
           items == { StoredRow(k) : k \in stored }
       IN  call' = [ fn |-> "email_exists_in_feed", email |-> email,
                     rule |-> Nothing, items |-> items,
                     result |-> email_exists_in_feed(items, email, "f1") ]
    /\ UNCHANGED << config, dbVars, feed_items, mailbox, now, is_running,
                    account_states, processing_semaphore, next_tick, tick,
                    tasks, last_cleanup, stream, session, serviceVars >>

\* the called function has returned to process_rule
call_return ==
    /\ call # Nothing
    /\ call' = Nothing
    /\ UNCHANGED << config, dbVars, feed_items, mailbox, now, is_running,
                    account_states, processing_semaphore, next_tick, tick,
                    tasks, last_cleanup, stream, session, serviceVars >>

NextCalls ==
    \/ call_return
    \/ \E hf \in HeaderTexts, ht \in HeaderTexts, hs \in HeaderTexts,
          pf \in Patterns, pt \in Patterns, ps \in Patterns :
         call_matches_rule(hf, ht, hs, pf, pt, ps)
    \/ \E stored \in SUBSET MessageIds, id \in MessageIds,
          hs \in { << "A" >>, << "B" >> } :
         call_email_exists_in_feed(stored, id, hs)

SpecCalls == InitCrlf /\ [][NextCalls]_vars

\* pat occurs in text at offset k when letters are compared without case
OccursAt(pat, text, k) ==
    \A i \in 1..Len(pat) :
       to_lowercase_char(text[k + i]) = to_lowercase_char(pat[i])

\* the criterion p, when present, occurs in the header without case
Satisfied(p, header) ==
    IsSome(p) =>
       \E k \in 0..(Len(header) - Len(Unwrap(p))) : OccursAt(Unwrap(p), header, k)

Called(fn) == call # Nothing /\ call.fn = fn

\* C14: matches_rule is true exactly when every criterion the rule has
\* occurs in its header without regard to case; a rule without criteria
\* and a rule whose criteria are empty texts match every message
C14_MatchesIffAllPredicates ==
    Called("matches_rule") =>
        LET r == call.rule
            e == call.email
            criteria == { r.from_address, r.to_address, r.subject_contains }
        IN  /\ call.result <=> /\ Satisfied(r.from_address, e.from)
                               /\ Satisfied(r.to_address, e.to)
                               /\ Satisfied(r.subject_contains, e.subject)
            /\ criteria = { Nothing } => call.result
            /\ criteria \subseteq { Nothing, Some(<< >>) } => call.result

\* a match through a criterion in another case than the header, beside an
\* empty criterion
C14_Witness ==
    /\ Called("matches_rule")
    /\ call.result
    /\ call.rule.from_address = Some(<< "a", "B" >>)
    /\ call.email.from = << "A", "b" >>
    /\ call.rule.to_address = Some(<< >>)
    /\ call.rule.subject_contains = Nothing

\* C15: a message with a Message-ID is a duplicate exactly when a row of
\* the feed carries that Message-ID; a message without one is a duplicate
\* exactly when a row has its subject, sender and date
C15_TwoTierDuplicateTest ==
    Called("email_exists_in_feed") =>
        LET e == call.email
        IN  call.result <=>
              IF e.message_id # << >>
              THEN \E it \in call.items : /\ it.feed_id = "f1"
                                          /\ it.email_message_id = e.message_id
              ELSE \E it \in call.items : /\ it.feed_id = "f1"
                                          /\ it.title = e.subject
                                          /\ it.email_from = e.from
                                          /\ it.pub_date = e.date

(***************************************************************************)
(* scheduler.rs, client.rs: a worker that panics                           *)
(***************************************************************************)
\* fetch_emails_from_folder, "spawn_blocking(..).await.unwrap()": the
\* blocking fetch panicked and the unwrap panics in the worker.  The task
\* of the worker unwinds: its permit is dropped, and the code after the
\* processor call does not run.
worker_panic(t) ==
    /\ t \in tasks /\ t.kind = "scheduled" /\ t.pc = "rule"
    /\ processing_semaphore' = processing_semaphore + 1
    /\ tasks' = tasks \ {t}
    /\ UNCHANGED << config, dbVars, feed_items, mailbox, now, is_running,
                    account_states, next_tick, tick, last_cleanup >>
    /\ UNCHANGED << pureVars, serviceVars >>

InitPanic ==
    /\ SchedulerNew(from_env(5, 5, 1, 1, 30, 100, 300))
    /\ StoreProc({ Nothing }, { {1} })

NextPanic ==
    \/ NextProc
    \/ \E t \in tasks : worker_panic(t)

SpecPanic == InitPanic /\ [][NextPanic]_vars

\* the step ends the worker t inside its processor call
Crashed(t) ==
    /\ t \in tasks /\ t.kind = "scheduled" /\ t.pc \in ProcessorPcs
    /\ tasks' = tasks \ {t}

\* C16: when a worker crashes inside its processor call, its permit comes
\* back, and the state of its account records the crash: is_processing is
\* false, last_error is set and the failure counters are one higher
C16_CrashIsRecorded ==
    [][ \A t \in tasks :
          (Crashed(t) /\ HasState(t.account)) =>
            LET before == account_states[t.account]
                after  == account_states'[t.account]
            IN  /\ processing_semaphore' = processing_semaphore + 1
                /\ ~after.is_processing
                /\ after.stats.last_error # None
                /\ after.stats.consecutive_failures
                     = before.stats.consecutive_failures + 1 ]_vars

(***************************************************************************)
(* service.rs, control.rs: the control handler; scheduler.rs: stop         *)
(***************************************************************************)
\* EmailScheduler::stop: "sleep(Duration::from_secs(2))"
DrainDelay == 2

\* the commands whose handling is a step of its own
Commands == { "ProcessAllNow", "Pause", "Resume" }

\* ServiceController::send_command and "control_rx.recv().await": the
\* handler, which serves one command at a time, receives the command m
control_recv(m) ==
    /\ control_handler = "recv"
    /\ ~ \E t \in tasks : t.kind = "manual"
    /\ control_handler' = m
    /\ UNCHANGED << config, dbVars, feed_items, mailbox, now, is_running,
                    account_states, processing_semaphore, next_tick, tick,
                    tasks, last_cleanup, pureVars, is_paused,
                    cancellation_token, scheduler_loop, next_cleanup,
                    stop_call >>

\* control handler, ControlMessage::ProcessAllNow: a log line
handle_process_all_now ==
    /\ control_handler = "ProcessAllNow"
    /\ control_handler' = "recv"
    /\ UNCHANGED << config, dbVars, feed_items, mailbox, now, is_running,
                    account_states, processing_semaphore, next_tick, tick,
                    tasks, last_cleanup, pureVars, is_paused,
                    cancellation_token, scheduler_loop, next_cleanup,
                    stop_call >>

\* control handler, ControlMessage::Pause
handle_pause ==
    /\ control_handler = "Pause"
    /\ control_handler' = "recv"
    /\ is_paused' = TRUE
    /\ UNCHANGED << config, dbVars, feed_items, mailbox, now, is_running,
                    account_states, processing_semaphore, next_tick, tick,
                    tasks, last_cleanup, pureVars, cancellation_token,
                    scheduler_loop, next_cleanup, stop_call >>

\* control handler, ControlMessage::Resume
handle_resume ==
    /\ control_handler = "Resume"
    /\ control_handler' = "recv"
    /\ is_paused' = FALSE
    /\ UNCHANGED << config, dbVars, feed_items, mailbox, now, is_running,
                    account_states, processing_semaphore, next_tick, tick,
                    tasks, last_cleanup, pureVars, cancellation_token,
                    scheduler_loop, next_cleanup, stop_call >>

\* BackgroundService::stop, EmailScheduler::stop up to the sleep: the token
\* is cancelled
stop_begin ==
    /\ is_running
    /\ stop_call = Nothing
    /\ cancellation_token' = TRUE
    /\ stop_call' = Some(InstantNow + DrainDelay)
    /\ UNCHANGED << config, dbVars, feed_items, mailbox, now, is_running,
                    account_states, processing_semaphore, next_tick, tick,
                    tasks, last_cleanup, pureVars, is_paused, control_handler,
                    scheduler_loop, next_cleanup >>

\* EmailScheduler::stop after the sleep
stop_end ==
    /\ IsSome(stop_call)
    /\ InstantNow >= Unwrap(stop_call)
    /\ is_running' = FALSE
    /\ stop_call' = Nothing
    /\ UNCHANGED << config, dbVars, feed_items, mailbox, now,
                    account_states, processing_semaphore, next_tick, tick,
                    tasks, last_cleanup, pureVars, is_paused, control_handler,
                    cancellation_token, scheduler_loop, next_cleanup >>

\* run_scheduler_loop, "_ = self.cancellation_token.cancelled() => break":
\* select! takes any of its branches that is ready
scheduler_loop_break ==
    /\ scheduler_loop
    /\ tick.pc = "idle"
    /\ cancellation_token
    /\ scheduler_loop' = FALSE
    /\ UNCHANGED << config, dbVars, feed_items, mailbox, now, is_running,
                    account_states, processing_semaphore, next_tick, tick,
                    tasks, last_cleanup, pureVars, is_paused, control_handler,
                    cancellation_token, next_cleanup, stop_call >>

\* one account with a rule on an empty folder, and a feed over its limit
InitService ==
    /\ SchedulerNew(from_env(5, 5, 1, 1, 30, 100, 300))
    /\ imap_accounts = << "a1" >>
    /\ email_rules = << Rule(Nothing) >>
    /\ feeds = << FeedRow(Some(1), Nothing, Nothing) >>
    /\ feed_items = { FeedItemRow(1, -2, 100), FeedItemRow(2, -1, 200) }
    /\ mailbox = [ f \in { "INBOX" } |-> {} ]

NextService ==
    \/ SchedulerNext
    \/ \E t \in tasks : process_rule_begin(t)
    \/ run_cleanup
    \/ \E m \in Commands : control_recv(m)
    \/ handle_process_all_now
    \/ handle_pause
    \/ handle_resume
    \/ stop_begin
    \/ stop_end
    \/ scheduler_loop_break

SpecService == InitService /\ [][NextService]_vars

\* an account is due and a permit is free: a pass spawns a worker
WorkerDue ==
    /\ processing_semaphore > 0
    /\ \E a \in Range(imap_accounts) : should_process(a, InstantNow)

\* the step is a retention tick
RetentionTick == next_cleanup' = next_cleanup + CleanupInterval

\* the step is the start of a processing tick
ProcessingTick == tick.pc = "idle" /\ next_tick' = next_tick + global_interval(config)

\* C17: a processing tick that comes while the paused flag is set is
\* skipped: it does not go over the accounts to spawn the worker of an
\* account that is due
C17_PausedStartsNoWorker ==
    [][ (is_paused /\ ProcessingTick /\ WorkerDue) => tick'.pc = "idle" ]_vars

\* C18: the step in which the handler has handled ProcessAllNow, with the
\* scheduler running, starts a pass over the accounts or makes the
\* processing tick due at once
C18_ProcessAllNowStartsPass ==
    [][ ( /\ control_handler = "ProcessAllNow"
          /\ control_handler' = "recv"
          /\ scheduler_loop /\ ~cancellation_token /\ tick.pc = "idle" )
        => \/ tick'.pc = "loop"
           \/ next_tick' <= InstantNow ]_vars

\* C20: once the token is cancelled no processing tick and no retention
\* tick starts, and cancelling leaves the workers and the account states
\* as they are
C20_NoTickAfterCancel ==
    [][ /\ cancellation_token => ~ProcessingTick /\ ~RetentionTick
        /\ cancellation_token' # cancellation_token
             => tasks' = tasks /\ account_states' = account_states ]_vars

(***************************************************************************)
(* scheduler.rs: the manual trigger beside the worker                      *)
(***************************************************************************)
\* the step is the end of the manual trigger t
ManualFinished(t) ==
    t \in tasks /\ t.kind = "manual" /\ t.pc = "update" /\ t \notin tasks'

\* the account state a worker writes for the outcome of t
WorkerUpdate(st, t) == record_outcome([ st EXCEPT !.is_processing = FALSE ], t)

\* every task inside the processor, or about to write its outcome, has
\* taken one of the permits
PermitsHeld ==
    processing_semaphore + Cardinality({ t \in tasks : Holding(t) })
      = config.max_concurrent_accounts

\* C19: the manual trigger leaves the account state that a worker leaves
\* for the same state and outcome, and runs the processor with a permit
C19_ManualUpdatesAsWorker ==
    [][ /\ PermitsHeld
        /\ \A t \in tasks :
             (ManualFinished(t) /\ HasState(t.account)) =>
                account_states'[t.account]
                  = WorkerUpdate(account_states[t.account], t) ]_vars

(***************************************************************************)
(* Construction of the scheduler and of the service                        *)
(***************************************************************************)
\* the configurations handed to the constructors: one that passes validate
\* and, for every field validate looks at, one that fails on that field
ValidConfig == from_env(5, 5, 2, 2, 30, 100, 300)

ConfigSeq ==
    << ValidConfig,
       from_env(0, 5, 2, 2, 30, 100, 300),
       from_env(5, 0, 2, 2, 30, 100, 300),
       from_env(5, 5, 0, 2, 30, 100, 300),
       from_env(5, 5, 2, 0, 30, 100, 300),
       from_env(5, 5, 2, 2, 30, 0, 300),
       from_env(5, 5, 2, 2, 30, 100, 0),
       [ ValidConfig EXCEPT !.retry.backoff_multiplier = 1 ],
       [ ValidConfig EXCEPT !.retry.backoff_multiplier = 0 ] >>

\* EmailScheduler::new: "config.validate()?" and then Ok(Self { .. })
scheduler_new_result(c) == IF validate(c) THEN "Ok" ELSE "Err"

\* BackgroundService::new: "config.validate()?" and then
\* "EmailScheduler::new(pool, config.clone())?"
service_new_result(c) ==
    IF ~ validate(c) THEN "Err" ELSE scheduler_new_result(c)

\* a constructor called with the i-th configuration: on Ok the scheduler
\* holds the configuration and a semaphore of max_concurrent_accounts
\* permits, on Err there is no scheduler
Construct(fn, i, result) ==
    /\ call = Nothing
    /\ call' = [ fn |-> fn, config |-> ConfigSeq[i], result |-> result ]
    /\ IF result = "Ok"
       THEN /\ config' = ConfigSeq[i]
            /\ processing_semaphore' = ConfigSeq[i].max_concurrent_accounts
       ELSE UNCHANGED << config, processing_semaphore >>
    /\ UNCHANGED << dbVars, feed_items, mailbox, now, is_running,
                    account_states, next_tick, tick, tasks, last_cleanup,
                    stream, session, serviceVars >>

EmailScheduler_new(i) ==
    Construct("EmailScheduler::new", i, scheduler_new_result(ConfigSeq[i]))

BackgroundService_new(i) ==
    Construct("BackgroundService::new", i, service_new_result(ConfigSeq[i]))

\* a constructor has returned Ok: there is a scheduler to call
Constructed == call # Nothing /\ call.result = "Ok"

\* main.rs before initialize_background_service: the configuration is
\* BackgroundConfig::default(), no scheduler, one account without rules
InitConfig ==
    /\ config = DefaultConfig
    /\ now = 0
    /\ is_running = FALSE
    /\ account_states = << >>
    /\ processing_semaphore = 0
    /\ next_tick = 0
    /\ tick = IdleTick
    /\ tasks = {}
    /\ last_cleanup = EmptyCleanup
    /\ stream = Nothing
    /\ session = Nothing
    /\ call = Nothing
    /\ is_paused = FALSE
    /\ control_handler = "none"
    /\ cancellation_token = FALSE
    /\ scheduler_loop = FALSE
    /\ next_cleanup = InstantNow
    /\ stop_call = Nothing
    /\ imap_accounts = << "a1" >>
    /\ email_rules = << >>
    /\ feeds = << >>
    /\ feed_items = {}
    /\ mailbox = [ f \in { "INBOX" } |-> {} ]

\* start is a method: it is called on a constructed scheduler only
constructed_start ==
    /\ Constructed
    /\ start

NextConfig ==
    \/ \E i \in DOMAIN ConfigSeq : EmailScheduler_new(i)
    \/ \E i \in DOMAIN ConfigSeq : BackgroundService_new(i)
    \/ constructed_start
    \/ process_due_accounts_begin
    \/ process_due_accounts_step
    \/ \E t \in tasks : worker_acquire(t)
    \/ \E t \in tasks : worker_finish(t)
    \/ \E a \in Range(imap_accounts) : control_process_account_now(a)
    \/ \E t \in tasks : process_account_now_acquire(t)
    \/ \E t \in tasks : process_account_now_finish(t)
    \/ \E t \in tasks : process_account_begin(t)
    \/ \E t \in tasks : processing_timeout(t)
    \/ advance_clock

SpecConfig == InitConfig /\ [][NextConfig]_vars

\* the configurations the claim calls invalid
Invalid(c) ==
    \/ c.global_interval_minutes = 0
    \/ c.per_account_interval_minutes = 0
    \/ c.max_concurrent_accounts = 0
    \/ c.retry.max_attempts = 0
    \/ c.retry.backoff_multiplier <= 1
    \/ c.limits.max_emails_per_run = 0
    \/ c.limits.max_processing_time_seconds = 0

ConstructorCalled ==
    Called("EmailScheduler::new") \/ Called("BackgroundService::new")

\* C21: a constructor of the scheduler or of the service that is given an
\* invalid configuration returns an error, and the scheduler never runs
\* (is_running, its loop) with an invalid configuration
C21_InvalidConfigRejected ==
    /\ (ConstructorCalled /\ Invalid(call.config)) => call.result = "Err"
    /\ (is_running \/ scheduler_loop) => ~ Invalid(config)

\* the service constructor has refused a configuration with
\* max_emails_per_run = 0 and nothing runs
C21_Witness ==
    /\ Called("BackgroundService::new")
    /\ call.config.limits.max_emails_per_run = 0
    /\ call.result = "Err"
    /\ ~ is_running

(***************************************************************************)
(* C22, C24: the fetch of one folder as a function of the server's answers *)
(***************************************************************************)
\* a folder holds at most MaxFolder of the messages of RawMessages
MaxFolder == 3

FolderContents == { S \in SUBSET RawMessages : Cardinality(S) <= MaxFolder }

\* the limits of the tests of fetch_count and the one process_rule passes
Limits == { Nothing, Some(0), Some(1), Some(2), Some(FetchLimit) }

\* what fetch_from_selected_folder asks the server for: the UID list of
\* the UID FETCH, or the sequence set of the FETCH when the search failed
uid_list(srv, folder_msgs, limit) ==
    IF srv.uid_search
    THEN LET asked == uids_to_fetch(folder_msgs, limit)
         IN  [ i \in 1..Len(asked) |-> asked[i].uid ]
    ELSE << >>

sequence_list(srv, folder_msgs, limit) ==
    IF srv.uid_search THEN Nothing
    ELSE Some(sequence_set(limit, Cardinality(folder_msgs)))

\* fetch_from_selected_folder is called on the folder INBOX of a server
call_fetch_from_selected_folder(us, hd, en, uo, sq, folder_msgs, limit) ==
    /\ call = Nothing
    /\ LET srv  == Server(us, hd, en, uo, sq)
           mbox == [ f \in { "INBOX" } |-> folder_msgs ]
       IN  call' = [ fn |-> "fetch_from_selected_folder", srv |-> srv,
                     folder_msgs |-> folder_msgs, limit |-> limit,
                     uid_list |-> uid_list(srv, folder_msgs, limit),
                     sequence_set |-> sequence_list(srv, folder_msgs, limit),
                     result |-> fetch_from_selected_folder(
                                  srv, mbox, "INBOX", limit, now) ]
    /\ UNCHANGED << config, dbVars, feed_items, mailbox, now, is_running,
                    account_states, processing_semaphore, next_tick, tick,
                    tasks, last_cleanup, stream, session, serviceVars >>

NextFetch ==
    \/ call_return
    \/ \E us, hd, en, uo, sq \in BOOLEAN, S \in FolderContents, l \in Limits :
         call_fetch_from_selected_folder(us, hd, en, uo, sq, S, l)

SpecFetch == InitCrlf /\ [][NextFetch]_vars

\* the search is answered and every fetch of the UID list fails
AllStrategiesFail(srv) ==
    srv.uid_search /\ ~ srv.header /\ ~ srv.envelope /\ ~ srv.uid_only

\* C22: when the header fetch, the envelope fetch and the UID-only fetch
\* of a non-empty folder all return errors, the fetch returns the error
\* ServerIncompatible (which process_rule would record for the rule)
C22_AllFailIsServerIncompatible ==
    ( /\ Called("fetch_from_selected_folder")
      /\ call.folder_msgs # {}
      /\ call.uid_list # << >>
      /\ AllStrategiesFail(call.srv) )
    => call.result.err = "ServerIncompatible"

\* the k highest UIDs of a folder
HighestUids(folder_msgs, k) ==
    { m.uid : m \in { x \in folder_msgs :
                        Cardinality({ y \in folder_msgs : y.uid > x.uid }) < k } }

\* min(L, T), T without a limit
Expected(limit, T) == IF IsSome(limit) THEN Min(Unwrap(limit), T) ELSE T

RECURSIVE replace(_, _, _)
replace(s, pat, by) ==
    IF Len(s) < Len(pat) \/ pat = << >> THEN s
    ELSE IF SubSeq(s, 1, Len(pat)) = pat
    THEN by \o replace(SubSeq(s, Len(pat) + 1, Len(s)), pat, by)
    ELSE << Head(s) >> \o replace(Tail(s), pat, by)

\* the texts "Folders/", "/", ".", "INBOX." and "INBOX"
FoldersPrefix == << "F", "o", "l", "d", "e", "r", "s", "/" >>

Slash == << "/" >>

Dot == << "." >>

Inbox == << "I", "N", "B", "O", "X" >>

\* fetch_emails_tls_sync, "let alternatives = vec![..]"
alternatives(folder) ==
    << replace(folder, FoldersPrefix, << >>),
       replace(replace(folder, FoldersPrefix, << >>), Slash, Dot),
       Inbox \o Dot \o replace(replace(folder, FoldersPrefix, << >>), Slash, Dot),
       Inbox >>

\* fetch_emails_tls_sync on a connected session: SELECT of the folder,
\* else of the first alternative the server lets select, else the error
\* "Failed to select folder .. and all alternatives"
fetch_emails_tls_sync(srv, mbox, folder, limit, utc_now) ==
    LET alts       == alternatives(folder)
        selectable == { i \in 1..Len(alts) : alts[i] \in DOMAIN mbox }
    IN  IF folder \in DOMAIN mbox
        THEN fetch_from_selected_folder(srv, mbox, folder, limit, utc_now)
        ELSE IF selectable # {}
        THEN fetch_from_selected_folder(
               srv, mbox, alts[CHOOSE i \in selectable :
                                 \A j \in selectable : i <= j],
               limit, utc_now)
        ELSE Err("SelectFailed")

\* fetch_emails_plain_sync on a connected session: the folder is examined
\* as it is named
fetch_emails_plain_sync(srv, mbox, folder, limit, utc_now) ==
    fetch_from_selected_folder(srv, mbox, folder, limit, utc_now)

\* fetch_emails_from_folder: "if account.use_tls { .. } else { .. }"
fetch_emails_from_folder(use_tls, srv, mbox, folder, limit, utc_now) ==
    IF use_tls THEN fetch_emails_tls_sync(srv, mbox, folder, limit, utc_now)
    ELSE fetch_emails_plain_sync(srv, mbox, folder, limit, utc_now)

\* the folder of a rule on a ProtonMail Bridge account, "Folders/a/b",
\* and one without the prefix, "a/b"
RuleFolders ==
    { FoldersPrefix \o << "a", "/", "b" >>, << "a", "/", "b" >> }

\* the folders a server may have: the rule's folder, its alternatives and
\* one more; the folder at place i holds the message of UID i alone
ServerFolders ==
    << FoldersPrefix \o << "a", "/", "b" >>,
       << "a", "/", "b" >>,
       << "a", ".", "b" >>,
       Inbox \o << ".", "a", ".", "b" >>,
       Inbox >>

MailboxOf(places) ==
    [ f \in { ServerFolders[i] : i \in places } |->
        { m \in RawMessages :
            \E i \in places : ServerFolders[i] = f /\ m.uid = i } ]

\* fetch_emails_from_folder is called for a rule's folder on a server that
\* answers every fetch
call_fetch_emails_from_folder(use_tls, folder, places) ==
    /\ call = Nothing
    /\ call' = [ fn |-> "fetch_emails_from_folder", use_tls |-> use_tls,
                 folder |-> folder, mbox |-> MailboxOf(places),
                 result |-> fetch_emails_from_folder(
                              use_tls, CompliantServer, MailboxOf(places),
                              folder, Some(FetchLimit), now) ]
    /\ UNCHANGED << config, dbVars, feed_items, mailbox, now, is_running,
                    account_states, processing_semaphore, next_tick, tick,
                    tasks, last_cleanup, stream, session, serviceVars >>

NextSelect ==
    \/ call_return
    \/ \E use_tls \in BOOLEAN, folder \in RuleFolders,
          places \in SUBSET DOMAIN ServerFolders :
         call_fetch_emails_from_folder(use_tls, folder, places)

SpecSelect == InitCrlf /\ [][NextSelect]_vars

\* the alternatives in the claim's words: the name without "Folders/",
\* that with "." for "/", that after "INBOX.", and "INBOX"
ClaimedAlternatives(folder) ==
    LET stripped == replace(folder, FoldersPrefix, << >>)
        dotted   == replace(stripped, Slash, Dot)
    IN  << stripped, dotted, Inbox \o Dot \o dotted, Inbox >>

\* the messages of the first of the names that the server has
FirstSelectable(names, mbox) ==
    LET ok == { i \in 1..Len(names) : names[i] \in DOMAIN mbox }
    IN  IF ok = {} THEN Nothing
        ELSE Some(mbox[names[CHOOSE i \in ok : \A j \in ok : i <= j]])

\* C23: when the rule's folder cannot be selected, on a TLS and on a plain
\* connection alike, the messages returned are those of the first
\* alternative that can be selected, and when none can the fetch fails
C23_AlternativesTlsAndPlain ==
    ( Called("fetch_emails_from_folder") /\ call.folder \notin DOMAIN call.mbox )
    => LET first == FirstSelectable(ClaimedAlternatives(call.folder), call.mbox)
       IN  IF IsSome(first)
           THEN /\ call.result.err = None
                /\ { e.uid : e \in Range(call.result.value) }
                     = { m.uid : m \in Unwrap(first) }
           ELSE call.result.err # None

(***************************************************************************)
(* C25: the accounts a tick starts                                         *)
(***************************************************************************)
\* api/routes/imap_accounts.rs, create_account: a row is added to the
\* table the scheduler reads at every tick; the scheduler is not told
create_account(a) ==
    /\ a \notin Range(imap_accounts)
    /\ imap_accounts' = Append(imap_accounts, a)
    /\ UNCHANGED << config, email_rules, feeds, feed_items, mailbox, now,
                    is_running, account_states, processing_semaphore,
                    next_tick, tick, tasks, last_cleanup >>
    /\ UNCHANGED << pureVars, serviceVars >>

\* one account at the start; a tick every 5 minutes, 10 minutes between
\* the runs of an account, 5 minutes for a run, two permits
InitAccounts ==
    /\ SchedulerNew(from_env(5, 10, 2, 2, 30, 100, 300))
    /\ imap_accounts = << "a1" >>
    /\ email_rules = << >>
    /\ feeds = << >>
    /\ feed_items = {}
    /\ mailbox = [ f \in { "INBOX" } |-> {} ]

NextAccounts ==
    \/ SchedulerNext
    \/ create_account("a2")

SpecAccounts == InitAccounts /\ [][NextAccounts]_vars

\* the step is the iteration of a tick that spawns the worker of account a
TickStarts(a) ==
    /\ tick.pc = "loop"
    /\ tick' # tick
    /\ Head(tick.left) = a
    /\ NewTask("scheduled", a, "spawned") \in tasks' \ tasks

\* the workers that ticks have started for account a and that are not done
WorkersOf(a) == { t \in tasks : t.kind = "scheduled" /\ t.account = a }

\* C25: a tick starts the worker of an account only when the account is
\* not being processed (is_processing is false, no worker that a tick
\* started for it is still there) and the time the tick has read is not
\* before the account's next_allowed_run
C25_TickStartsOnlyDueAccounts ==
    [][ \A a \in Range(imap_accounts) :
          TickStarts(a) =>
            /\ WorkersOf(a) = {}
            /\ HasState(a) =>
                 /\ ~ account_states[a].is_processing
                 /\ tick.now >= account_states[a].next_allowed_run ]_vars

(***************************************************************************)
(* C26: the account state after a run that succeeded                       *)
(***************************************************************************)
\* the step ends task t, a scheduled worker or a manual run, whose
\* Processor call returned Ok
FinishedOk(t) ==
    /\ t.pc = "update"
    /\ t.outcome = "ok"
    /\ t \notin tasks'

\* C26: the step that ends a run whose Processor call succeeded leaves the
\* account with retry_count = 0, consecutive_failures = 0, no last_error,
\* last_run = last_success = the time of the step and next_allowed_run one
\* per_account_interval later, whatever these were before
C26_SuccessResetsRetryState ==
    [][ \A t \in tasks :
          (FinishedOk(t) /\ HasState(t.account)) =>
             LET st == account_states'[t.account]
             IN  /\ st.retry_count = 0
                 /\ st.stats.consecutive_failures = 0
                 /\ st.stats.last_error = None
                 /\ st.stats.last_run = Some(InstantNow)
                 /\ st.stats.last_success = Some(InstantNow)
                 /\ st.next_allowed_run
                      = InstantNow + per_account_interval(config) ]_vars

\* the Processor call of a worker has returned Ok for an account that has
\* failed before and waits in its backoff
C26_Witness ==
    \E t \in tasks :
       /\ t.kind = "scheduled" /\ t.pc = "update" /\ t.outcome = "ok"
       /\ HasState(t.account)
       /\ account_states[t.account].retry_count > 0
       /\ account_states[t.account].stats.consecutive_failures > 0
       /\ account_states[t.account].stats.last_error # None

(***************************************************************************)
(* C27: every started worker ends and gives back what it took              *)
(***************************************************************************)
\* a step of a run that holds a permit, the worker of a tick or a manual
\* run: the steps of the Processor call, its cut-off by the timeout and
\* the final update
worker_step(t) ==
    \/ process_account_begin(t)
    \/ process_rule_begin(t)
    \/ process_email(t)
    \/ create_feed_item(t)
    \/ processing_timeout(t)
    \/ worker_finish(t)
    \/ process_account_now_finish(t)

\* The runtime runs every spawned task that can take a step, and the
\* semaphore serves its waiters in the order of their arrival: a run that
\* waits gets the permit once it has come back (strong fairness), and a
\* run that holds it goes on (weak fairness; with the one permit of
\* InitPanic at most one run holds it).  A panic is possible at any time
\* and is under no fairness condition.
SpecWorkers ==
    /\ InitPanic
    /\ [][NextPanic]_vars
    /\ SF_vars(\E t \in tasks : worker_acquire(t))
    /\ SF_vars(\E t \in tasks : process_account_now_acquire(t))
    /\ WF_vars(\E t \in tasks : worker_step(t))

\* the accounts of the store
AccountIds == { "a1" }

\* a tick has marked the account and spawned its worker
Marked(a) == HasState(a) /\ account_states[a].is_processing

\* C27: the worker a tick has started for an account ends, so the account's
\* is_processing, once true, is false again later; and whenever no run
\* holds a permit all max_concurrent_accounts permits are in the semaphore
C27_WorkersFinishAndRelease ==
    /\ \A a \in AccountIds : [](Marked(a) => <>(~ Marked(a)))
    /\ []( (\A t \in tasks : ~ Holding(t))
             => processing_semaphore = config.max_concurrent_accounts )


(***************************************************************************)
(* The count filter of the compactor                                       *)
(***************************************************************************)
\* the rows of feed f that a step takes out of the table
RemovedOf(f) == ItemsOf(feed_items, f) \ ItemsOf(feed_items', f)

or(o, d) == IF IsSome(o) THEN o ELSE d

\* mutant: the settings of the request are stored as they are
with_retention_as_given(max_items, max_age_days, min_items) ==
    [ max_items |-> max_items, max_age_days |-> max_age_days,
      min_items |-> min_items ]

\* NewFeed::with_retention: the retention settings of the row
with_retention(max_items, max_age_days, min_items) ==
    [ max_items    |-> or(max_items, Some(100)),
      max_age_days |-> or(max_age_days, Some(30)),
      min_items    |-> or(min_items, Some(10)) ]

\* the call of a feed route with the settings of its request
FeedRequest(fn, max_items, max_age_days, min_items) ==
    [ fn |-> fn, max_items |-> max_items, max_age_days |-> max_age_days,
      min_items |-> min_items ]

\* POST /api/feeds: the row of NewFeed::with_retention is inserted
create_feed(max_items, max_age_days, min_items) ==
    /\ call = Nothing
    /\ feeds = << >>
    /\ LET new_feed == with_retention(max_items, max_age_days, min_items)
       IN  feeds' = << FeedRow(new_feed.max_items, new_feed.max_age_days,
                               new_feed.min_items) >>
    /\ call' = FeedRequest("create_feed", max_items, max_age_days, min_items)
    /\ UNCHANGED << config, imap_accounts, email_rules, feed_items, mailbox,
                    now, is_running, account_states, processing_semaphore,
                    next_tick, tick, tasks, last_cleanup, stream, session,
                    serviceVars >>

\* PUT /api/feeds/f1: FeedOps::update sets the columns of the row to
\* those of NewFeed::with_retention
update_feed(max_items, max_age_days, min_items) ==
    /\ call = Nothing
    /\ \E i \in DOMAIN feeds : feeds[i].id = "f1"
    /\ LET updated_feed == with_retention(max_items, max_age_days, min_items)
       IN  feeds' = [ i \in DOMAIN feeds |->
                        IF feeds[i].id = "f1"
                        THEN [ feeds[i] EXCEPT
                                 !.max_items = updated_feed.max_items,
                                 !.max_age_days = updated_feed.max_age_days,
                                 !.min_items = updated_feed.min_items ]
                        ELSE feeds[i] ]
    /\ call' = FeedRequest("update_feed", max_items, max_age_days, min_items)
    /\ UNCHANGED << config, imap_accounts, email_rules, feed_items, mailbox,
                    now, is_running, account_states, processing_semaphore,
                    next_tick, tick, tasks, last_cleanup, stream, session,
                    serviceVars >>

\* the settings of the requests and of the rows that exist at the start
RetentionMaxItems == { Nothing, Some(2) }
RetentionMaxAgeDays == { Nothing, Some(1) }
RetentionMinItems == { Nothing, Some(1) }

\* a row created 31 days and some seconds ago
AncientRow(id, pub_date) == FeedItemRow(id, id - 31 * DaySeconds, pub_date)

\* the rows 1..n of feed f1: the first ancient ones are older than 31 days,
\* the others as in Rows
RetentionRows(n, ancient, kinds, pubs) ==
    { AncientRow(i, pubs[i]) : i \in 1..ancient }
      \cup { FeedItemRow(i, CreatedAt(kinds[i], i), pubs[i]) :
               i \in (ancient + 1)..n }

\* the store of the retention specification: no feed at all, or feed f1
\* as a row with any settings, null included (the columns are nullable),
\* and up to three rows
StoreRetention ==
    /\ imap_accounts = << "a1" >>
    /\ email_rules = << Rule(Nothing) >>
    /\ mailbox = [ f \in { "INBOX" } |-> {} ]
    /\ \/ feeds = << >> /\ feed_items = {}
       \/ \E n \in 0..3 :
          \E ancient \in 0..n :
          \E kinds \in { k \in [ 1..n -> { "old", "fresh" } ] :
                           \A i, j \in 1..n :
                             (i < j /\ k[i] # k[j]) => k[i] = "old" } :
          \E pubs \in [ 1..n -> { 100, 200 } ] :
          \E max_items \in RetentionMaxItems :
          \E max_age_days \in RetentionMaxAgeDays :
          \E min_items \in RetentionMinItems :
            /\ feeds = << FeedRow(max_items, max_age_days, min_items) >>
            /\ feed_items = RetentionRows(n, ancient, kinds, pubs)

InitRetention ==
    /\ SchedulerNew(DefaultConfig)
    /\ StoreRetention

NextRetention ==
    \/ \E max_items \in RetentionMaxItems :
       \E max_age_days \in RetentionMaxAgeDays :
       \E min_items \in RetentionMinItems :
         \/ create_feed(max_items, max_age_days, min_items)
         \/ update_feed(max_items, max_age_days, min_items)
    \/ call_return
    \/ cleanup_all_feeds

SpecRetention == InitRetention /\ [][NextRetention]_vars

\* the request that has written the feed is at hand
Written == call # Nothing /\ call.fn \in { "create_feed", "update_feed" }

\* feed f with the defaults in place of its null settings
WithDefaults(f) ==
    [ f EXCEPT !.max_items = or(@, Some(100)),
               !.max_age_days = or(@, Some(30)),
               !.min_items = or(@, Some(10)) ]

NullSettingsSkipFilters ==
    CompactorStep =>
      \A f \in Range(feeds) :
        /\ (f.max_age_days = Nothing /\ f.max_items = Nothing) =>
             RemovedOf(f) = {}
        /\ f.max_items = Nothing =>
             \A it \in RemovedOf(f) : TooOld(f, it)
        /\ (f.min_items = Nothing /\ f.max_items = Nothing) =>
             \A it \in ItemsOf(feed_items, f) : TooOld(f, it) => it \in RemovedOf(f)

RuleIds == << "r1", "r2", "r3" >>
FeedIds == << "f1", "f2", "f3" >>

\* rule i of account a1 on INBOX, without criteria
RuleRow(i, is_active) ==
    [ Rule(Nothing) EXCEPT !.id = RuleIds[i], !.is_active = is_active ]

\* the feed of rule i
FeedOf(i) ==
    [ FeedRow(Some(100), Some(30), Some(10)) EXCEPT
        !.id = FeedIds[i], !.email_rule_id = RuleIds[i] ]

\* the store of the rule-loop specification: three rules of account a1,
\* each active or not, each with a feed or without; INBOX holds one or
\* two messages
StoreRules ==
    /\ imap_accounts = << "a1" >>
    /\ \E active \in [ 1..3 -> BOOLEAN ] :
         email_rules = [ i \in 1..3 |-> RuleRow(i, active[i]) ]
    /\ \E with_feed \in SUBSET (1..3) :
         feeds = SelectSeq([ i \in 1..3 |-> FeedOf(i) ],
                           LAMBDA f : \E i \in with_feed : f.id = FeedIds[i])
    /\ feed_items = {}
    /\ \E uids \in { {1}, {1, 4} } :
         mailbox = [ f \in { "INBOX" } |->
                       { m \in RawMessages : m.uid \in uids } ]

\* one permit, one account
InitRules ==
    /\ SchedulerNew(from_env(5, 5, 1, 1, 30, 100, 300))
    /\ StoreRules

\* the scheduler starts and its first tick runs the account once
NextRules ==
    \/ start
    \/ process_due_accounts_begin
    \/ process_due_accounts_step
    \/ \E t \in tasks : worker_acquire(t)
    \/ \E t \in tasks : process_account_begin(t)
    \/ \E t \in tasks : process_rule_begin(t)
    \/ \E t \in tasks : process_email(t)
    \/ \E t \in tasks : create_feed_item(t)
    \/ \E t \in tasks : worker_finish(t)

SpecRules == InitRules /\ [][NextRules]_vars

\* the rules named in ProcessingResult.errors
ErrorIds(result) == { result.errors[i][1] : i \in DOMAIN result.errors }

\* process_account hands the rule to the fetch: it is active and has a feed
Fetches(rule) == rule.is_active /\ get_feeds_by_rule(rule.id) # << >>

\* the messages of the rule's folder that match the rule
MatchCount(rule) ==
    Cardinality({ m \in mailbox[rule.folder] :
                    matches_rule(parse_email(m, now), rule) })

\* the emails that the rules other than the failed ones process
RECURSIVE ProcessedBy(_, _)
ProcessedBy(rules, failed) ==
    IF rules = << >> THEN 0
    ELSE ( IF Fetches(Head(rules)) /\ Head(rules).id \notin failed
           THEN MatchCount(Head(rules)) ELSE 0 )
         + ProcessedBy(Tail(rules), failed)

\* the Processor has returned Ok(result) to task t
ReturnedOk(t) == t.pc = "update" /\ t.outcome = "ok"

\* a step in which a rule of task t fails: u is the task after the step
RuleFails(t, u) ==
    /\ t.pc \in { "rule", "email" }
    /\ u.account = t.account /\ u.kind = t.kind
    /\ u.result.errors # t.result.errors

SameRun(t, u) == u.account = t.account /\ u.kind = t.kind

\* the step is the duplicate query of task t for the email at hand, and
\* the query fails
QueryFails(t, u) ==
    /\ t.pc = "email" /\ SameRun(t, u)
    /\ u.result.errors # t.result.errors

\* the step is create_feed_item of task t for the email at hand, and the
\* insertion fails
InsertFails(t, u) ==
    /\ t.pc = "insert" /\ SameRun(t, u)
    /\ u # t
    /\ feed_items' = feed_items

\* C31: when the duplicate query or the insertion fails for one message,
\* the failure is added to ProcessingResult.errors and the run goes on
\* with the next message of the same rule.
\* A failed query leaves process_rule through `?`, so the other messages
\* of the rule are dropped; a failed insertion is logged and no error is
\* added: this is violated.
C31_MessageFailureIsCollected ==
    [][ \A t \in tasks : \A u \in tasks' :
          (QueryFails(t, u) \/ InsertFails(t, u)) =>
            /\ Len(u.result.errors) = Len(t.result.errors) + 1
            /\ Len(t.emails_left) > 1 =>
                 /\ u.pc = "email"
                 /\ u.emails_left = Tail(t.emails_left)
                 /\ u.rules_left = t.rules_left ]_vars


(***************************************************************************)
(* processor.rs: the order of insertion and post action                    *)
(***************************************************************************)
\* one account, one rule with a post action, with or without a subject
\* criterion, and its feed; INBOX holds message 1, message 4 with the
\* Message-ID of message 1 and another subject, and message 5
InitOrder ==
    /\ SchedulerNew(from_env(5, 5, 1, 1, 30, 100, 300))
    /\ imap_accounts = << "a1" >>
    /\ \E pa \in PostActions : \E subject \in { Nothing, Some(<< "a" >>) } :
         email_rules = << [ RulePost(pa[1], pa[2]) EXCEPT
                              !.subject_contains = subject ] >>
    /\ feeds = << FeedRow(Some(100), Some(30), Some(10)) >>
    /\ feed_items = {}
    /\ mailbox = [ f \in { "INBOX", "Archive" } |->
                     IF f = "INBOX"
                     THEN { m \in RawMessages : m.uid \in { 1, 4, 5 } }
                     ELSE {} ]

NextOrder ==
    \/ NextRules
    \/ \E t \in tasks : post_process_email(t)

SpecOrder == InitOrder /\ [][NextOrder]_vars

\* the row that create_feed_item makes from the email is in the feed
ItemOf(items, email, feed_id_val) ==
    \E it \in items :
      /\ it.feed_id = feed_id_val
      /\ it.title = email.subject
      /\ it.email_from = email.from
      /\ it.pub_date = email.date
      /\ it.email_message_id = email.message_id

\* C32: a post action reaches the mailbox only in a step of a run that is
\* past the insertion of the message at hand: the message matches the
\* rule and its FeedItem is in the store before the step; and a run
\* comes to the post action only by the step that inserts the FeedItem
\* of the message, which matched the rule and was no duplicate: never
\* after a failed insertion.
C32_PostActionAfterInsert ==
    /\ [][ mailbox' # mailbox =>
             \E t \in tasks :
               /\ t.pc = "post"
               /\ matches_rule(Head(t.emails_left), Head(t.rules_left))
               /\ ItemOf(feed_items, Head(t.emails_left), t.feed_id)
               /\ feed_items' = feed_items
               /\ mailbox' = post_action(mailbox, Head(t.emails_left).uid,
                                         Head(t.rules_left)) ]_vars
    /\ [][ \A u \in tasks' :
             (u.pc = "post" /\ u \notin tasks) =>
               \E t \in tasks :
                 /\ t.pc = "insert" /\ SameRun(t, u)
                 /\ u.emails_left = t.emails_left
                 /\ matches_rule(Head(t.emails_left), Head(t.rules_left))
                 /\ ~ email_exists_in_feed(feed_items, Head(t.emails_left),
                                           t.feed_id)
                 /\ feed_items' # feed_items
                 /\ ItemOf(feed_items' \ feed_items, Head(t.emails_left),
                           t.feed_id) ]_vars

\* C32 witness: the rule asks for the subject "a" and deletes; message 1
\* has its item and is gone from INBOX, message 4, which does not match,
\* is in INBOX, and message 5, whose insertion failed, is in INBOX while
\* the run is over
C32_Witness ==
    /\ email_rules[1].subject_contains = Some(<< "a" >>)
    /\ email_rules[1].post_process_action = "delete"
    /\ { m.uid : m \in mailbox["INBOX"] } = { 4, 5 }
    /\ Cardinality(feed_items) = 1
    /\ \E t \in tasks : ReturnedOk(t) /\ t.result.total_emails_processed = 2


(***************************************************************************)
(* db/models.rs, api/routes/email_rules.rs: the post action a rule is      *)
(* stored with, and the action post_process_email takes for it             *)
(***************************************************************************)
\* Option::unwrap_or_else
unwrap_or_else(o, d) == IF IsSome(o) THEN Unwrap(o) ELSE d

\* NewEmailRule::with_defaults: the post action columns of the row
with_defaults(post_process_action, move_to_folder) ==
    [ post_process_action |-> post_process_action,
      move_to_folder      |-> move_to_folder ]

\* NewEmailRule::from_account_defaults
from_account_defaults(default_post_process_action, default_move_to_folder) ==
    with_defaults(default_post_process_action, default_move_to_folder)

\* create_rule and update_rule: the row that is written for a request,
\* given the defaults of the account the request names
new_rule(default_action, default_move, req_action, req_move, inherit) ==
    IF inherit
    THEN from_account_defaults(default_action, default_move)
    ELSE with_defaults(unwrap_or_else(req_action, "mark_read"), req_move)

\* the action strings of accounts and requests; "archive" is none of the
\* four names
ActionStrings == { "mark_read", "delete", "move_to_folder", "do_nothing",
                   "archive" }

\* a rule is written through POST or PUT /api/rules and a message of the
\* rule is then post-processed: post_process_email reads the action of
\* the rule with EmailAction::from_str
call_create_rule(default_action, default_move, req_action, req_move, inherit) ==
    /\ call = Nothing
    /\ LET rule == new_rule(default_action, default_move, req_action,
                            req_move, inherit)
       IN  call' = [ fn |-> "create_rule",
                     default_post_process_action |-> default_action,
                     default_move_to_folder |-> default_move,
                     post_process_action |-> req_action,
                     move_to_folder |-> req_move,
                     inherit_account_defaults |-> inherit,
                     rule |-> rule,
                     result |-> from_str(rule.post_process_action) ]
    /\ UNCHANGED << config, dbVars, feed_items, mailbox, now, is_running,
                    account_states, processing_semaphore, next_tick, tick,
                    tasks, last_cleanup, stream, session, serviceVars >>

NextRuleWrite ==
    \/ call_return
    \/ \E default_action \in ActionStrings,
          default_move \in { Nothing, Some("Archive") },
          req_action \in { Nothing } \cup { Some(a) : a \in ActionStrings },
          req_move \in { Nothing, Some("Seen") },
          inherit_account_defaults \in BOOLEAN :
         call_create_rule(default_action, default_move, req_action, req_move,
                          inherit_account_defaults)

SpecRuleWrite == InitCrlf /\ [][NextRuleWrite]_vars

\* C33: the action taken for a message of a rule is that of the post
\* action the rule's request names, when it names one, and that of the
\* default post action of the account otherwise; a string that is none of
\* delete, move_to_folder, do_nothing stands for MarkAsRead.
\* A request without post action and without inherit_account_defaults is
\* stored as mark_read, and one with inherit_account_defaults takes the
\* account's default over its own post action: this is violated.
C33_RuleActionElseAccountDefault ==
    Called("create_rule") =>
      call.result = from_str(IF IsSome(call.post_process_action)
                             THEN Unwrap(call.post_process_action)
                             ELSE call.default_post_process_action)


\* C34: after a compactor run no row that was removed has a later
\* created_at than a row of the same feed that stays, also when the
\* min_items floor has shortened the removal list.
\* The floor cuts the removal list at its end, and the list starts with
\* the rows the age filter marked in the order of the listing (pub_date
\* descending), so the rows that stay need not be the newest: this is
\* violated.
C34_NewestItemsSurvive ==
    [][ CompactorStep =>
          \A f \in Range(feeds) :
            \A r \in RemovedOf(f) :
              \A kept \in ItemsOf(feed_items', f) :
                r.created_at <= kept.created_at ]_vars


(***************************************************************************)
(* crlf_wrapper.rs: a byte string written in several calls of poll_write   *)
(***************************************************************************)
\* the step is a call of poll_write
WriteStep ==
    /\ stream # Nothing /\ stream' # Nothing
    /\ stream' # stream

\* the step is a call of poll_write whose data the inner stream accepts
\* whole
WholeWrite ==
    /\ WriteStep
    /\ stream'.sent = stream.sent \o stream'.inner

\* C35: what the inner stream receives does not depend on the split of
\* the caller's bytes into calls: when every call so far has delivered
\* what one call with all the bytes delivers, so does the next call.
\* Each call looks for the CR before a LF in its own buffer only, so a
\* LF that opens a buffer gets a CR although the buffer before it ended
\* with CR: this is violated.
C35_SplitIndependent ==
    [][ ( /\ WholeWrite
          /\ stream.sent = process_outgoing_data(stream, stream.reported) )
        => stream'.sent = process_outgoing_data(stream', stream'.reported) ]_vars

\* C36: the bytes that poll_write reports as written have been accepted
\* by the inner stream: after every call the inner stream holds the whole
\* processed data of the call.
\* The number the inner stream returns is dropped and buf.len() is
\* returned; the wrapper keeps no rest (write_buffer is never written), so
\* the bytes the inner stream did not accept are in no later write: this
\* is violated.
C36_ReportedBytesAreDelivered ==
    [][ WriteStep => stream'.sent = stream.sent \o stream'.inner ]_vars


(***************************************************************************)
(* service.rs, scheduler.rs: restart                                       *)
(***************************************************************************)
\* the scheduler has been started and no stop is under way
StartedNotStopping == is_running /\ stop_call = Nothing

\* C37: the loop of a scheduler that has been started, and that is not
\* being stopped, keeps running: after a restart as after the first start
\* it ends only with the next stop
C37_RestartedLoopKeepsRunning ==
    [][ (StartedNotStopping /\ scheduler_loop) => scheduler_loop' ]_vars


(***************************************************************************)
(* scheduler.rs: a start that fails                                        *)
(***************************************************************************)
\* EmailScheduler::start when get_active_accounts returns Err inside
\* initialize_account_states: the flag has been set, "?" returns before
\* the loop is spawned; BackgroundService::start then stores
\* ServiceState::Error and does not start a control handler
start_fails ==
    /\ ~is_running
    /\ is_running' = TRUE
    /\ UNCHANGED << config, dbVars, feed_items, mailbox, now,
                    account_states, processing_semaphore, next_tick, tick,
                    tasks, last_cleanup, pureVars, serviceVars >>

NextStart ==
    \/ NextService
    \/ start_fails

SpecStart == InitService /\ [][NextStart]_vars

\* C38: a start that fails while it loads the accounts leaves the
\* scheduler not running and spawns no loop, so that the next start is not
\* rejected
C38_FailedStartLeavesNotRunning ==
    [][ start_fails => (~is_running' /\ scheduler_loop' = scheduler_loop) ]_vars


(***************************************************************************)
(* C39: an account created after the start                                 *)
(***************************************************************************)
\* the step ends the worker a tick started for account a
WorkerEnds(a) == \E t \in WorkersOf(a) : t.pc = "update" /\ t \notin tasks'

\* C39: from its first scheduled run on an account has a state that is
\* tracked, also when it was created after the start: the tick that starts
\* its worker leaves it with is_processing set, and the end of its worker
\* leaves it with is_processing reset and a next_allowed_run that is not
\* before the time of that end
C39_NewAccountIsTracked ==
    [][ \A a \in Range(imap_accounts) :
          /\ TickStarts(a) =>
               /\ a \in DOMAIN account_states'
               /\ account_states'[a].is_processing
          /\ WorkerEnds(a) =>
               /\ a \in DOMAIN account_states'
               /\ ~ account_states'[a].is_processing
               /\ account_states'[a].next_allowed_run >= InstantNow ]_vars


(***************************************************************************)
(* control.rs, service.rs: GetStatus beside ProcessAccountNow              *)
(***************************************************************************)
\* ServiceController::get_status: "Duration::from_secs(5)"
StatusTimeout == 5

\* a status request has been sent and has neither its reply nor its timeout
StatusPending == Called("get_status") /\ call.result = "pending"

\* ServiceController::get_status up to the wait: GetStatus is put on the
\* control channel of a handler that is alive
get_status_send ==
    /\ call = Nothing
    /\ control_handler # "none"
    /\ call' = [ fn |-> "get_status", sent |-> now, result |-> "pending" ]
    /\ UNCHANGED << config, dbVars, feed_items, mailbox, now, is_running,
                    account_states, processing_semaphore, next_tick, tick,
                    tasks, last_cleanup, stream, session, serviceVars >>

\* control handler, ControlMessage::GetStatus: the handler is back at
\* "control_rx.recv().await", which it is not while it awaits
\* process_account_now, and sends the reply
handle_get_status ==
    /\ StatusPending
    /\ control_handler = "recv"
    /\ ~ \E t \in tasks : t.kind = "manual"
    /\ call' = [ call EXCEPT !.result = "Status" ]
    /\ UNCHANGED << config, dbVars, feed_items, mailbox, now, is_running,
                    account_states, processing_semaphore, next_tick, tick,
                    tasks, last_cleanup, stream, session, serviceVars >>

\* ServiceController::get_status, "Err(_) => Timeout waiting for service
\* status": no reply has come within StatusTimeout seconds
get_status_timeout ==
    /\ StatusPending
    /\ now >= call.sent + StatusTimeout
    /\ call' = [ call EXCEPT !.result = "Timeout" ]
    /\ UNCHANGED << config, dbVars, feed_items, mailbox, now, is_running,
                    account_states, processing_semaphore, next_tick, tick,
                    tasks, last_cleanup, stream, session, serviceVars >>

\* ServiceController::get_status returns what it got to its caller
get_status_return ==
    /\ Called("get_status")
    /\ call.result # "pending"
    /\ call' = Nothing
    /\ UNCHANGED << config, dbVars, feed_items, mailbox, now, is_running,
                    account_states, processing_semaphore, next_tick, tick,
                    tasks, last_cleanup, stream, session, serviceVars >>

\* time passes only when the handler has no command it can serve at once:
\* serving GetStatus takes far less than ClockStep seconds
status_clock ==
    /\ ~ ENABLED handle_get_status
    /\ advance_clock

NextStatus ==
    \/ start
    \/ process_due_accounts_begin
    \/ process_due_accounts_step
    \/ \E t \in tasks : worker_acquire(t)
    \/ \E t \in tasks : worker_finish(t)
    \/ \E a \in Range(imap_accounts) : control_process_account_now(a)
    \/ \E t \in tasks : process_account_now_acquire(t)
    \/ \E t \in tasks : process_account_now_finish(t)
    \/ \E t \in tasks : process_account_begin(t)
    \/ \E t \in tasks : processing_timeout(t)
    \/ status_clock
    \/ get_status_send
    \/ handle_get_status
    \/ get_status_timeout
    \/ get_status_return

SpecStatus == InitAccounts /\ [][NextStatus]_vars

\* C40: a status request sent to a handler that is alive gets its reply: it
\* does not run into the timeout of the requester while the handler waits
\* for the processing that an earlier ProcessAccountNow started
C40_StatusDoesNotWaitForProcessing ==
    [][ StatusPending => call' # [ call EXCEPT !.result = "Timeout" ] ]_vars
====
